---- MODULE Spec2Model ----
(***************************************************************************)
(* RunningChicken: the pattern world (MapHandler, src/src/gameplay.ts),    *)
(* the player physics (createCharacter, src/src/character.ts) and the      *)
(* per-frame resolver and game-over logic (init, src/src/main.ts).         *)
(*                                                                         *)
(* Units.  The code computes with floating point pixels and seconds.  The  *)
(* model uses exact fixed point:                                           *)
(*   time       one tick = 1/Hz second (50 ms); a frame lasts 1 or 2 ticks *)
(*   world X    XU units per pixel (scroll, worldX, spans, colliders)      *)
(*   Y          YU units per pixel (y, surfaces, collider tops)            *)
(*   velocityY  pixels per second                                          *)
(*   speed      SU units per pixel-per-second                              *)
(* With these, every product of the code (speed*dt, speed*1.015*dt,        *)
(* vy*dt, gravity*0.45*dt) is an integer.                                  *)
(***************************************************************************)
EXTENDS Integers, Sequences, FiniteSets, TLC

VARIABLES
    \* ---- MapHandler (gameplay.ts)
    patterns,        \* this.patterns : seq of [start, length, top, playerYOffset]
    obstacles,       \* this.obstacles: seq of [x, width, height, top, isGround, id]
    pits,            \* this.pits     : seq of [x, width]
    scroll,          \* this.scroll   (XU)
    speed,           \* this.speed    (SU)
    allowRandomObstacles,
    planes,          \* the plane sprites of the pattern containers (main.ts
                     \* 918-960): seq of [cx, cy, x, y, vx, gw, gh]
    cursor,          \* cursorX of the layout loop of startGame (XU)
    \* ---- record of the last MapHandler call (for the call-level claims)
    last,
    placed,          \* the addPattern calls that returned a pattern: [p, startX]
    failedAdds,      \* number of addPattern calls that returned null
    regPits,         \* the pit spans registered since the last reset
    calls,           \* number of calls the harness has made
    \* ---- Player (character.ts)
    worldX,          \* player.worldX (XU)
    y,               \* player.y      (YU)
    vy,              \* player.vy     (px/s)
    onGround,        \* player.onGround
    jumpsLeft,       \* player.jumpsLeft
    jumpHoldTime,    \* player.jumpHoldTime (ticks)
    holdingJump,     \* player.holdingJump
    \* ---- record of the last Player call (for the call-level claims)
    plast,
    airJumps,        \* successful jump() calls made airborne since the player
                     \* was last put on the ground
    \* ---- the session (closure variables of init, main.ts)
    pickups,              \* pickups: seq of [x, y] (world position of the centre)
    controlsEnabled,
    playerDead,
    gameOver,
    playerInvincible,
    powerLeft,            \* ticks until powerTimeout fires, -1: not armed
    collisionEffectPlaying,
    effLeft,              \* ticks until the collision effect ends, -1: none
    effCb,                \* its onComplete: "none" or "gameover"
    graceLeft,            \* ticks until gameOverQueuedTimer fires, -1: not armed
    gameOverQueuedReason,
    score,
    prevScore,
    lastDistanceThreshold,
    rewardShown,
    rewardActive,
    rewardPermanentStop,
    tickerStarted,        \* app.ticker is running
    spaceHeld,
    \* ---- record of the run (for the claims)
    frames,               \* animation frames so far
    idled,                \* times the page has stalled so far
    overFrames,           \* animation frames since gameOver was set
    presses,              \* keydowns since the user took over
    behindFrames,         \* animation frames in a row that ended with the
                          \* player behind the camera and not grounded on a
                          \* pattern
    strayed,              \* the player has been off every pattern at the end
                          \* of a frame since the pending request was queued
    takeover,             \* the frame from which the user plays freely
    flight,               \* the jump from the ground under way, and its landing
    session,              \* the restarts so far, whether gameplay is set, the
                          \* callbacks left over from before the last restart
                          \* and the game-over screens shown since it
    ev,                   \* what the last frame or timer callback did
    \* ---- SpinePlayer (SpinePlayer.ts)
    spinePlayerInstance   \* [spine, desiredTimeScale, pausedTrackScales,
                          \* tracks], with the record of its last call

mapVars    == <<patterns, obstacles, pits, scroll, speed, allowRandomObstacles, planes, cursor>>
callVars   == <<last, placed, failedAdds, regPits, calls>>
playerVars == <<worldX, y, vy, onGround, jumpsLeft, jumpHoldTime, holdingJump>>
sessionVars == <<pickups, controlsEnabled, playerDead, gameOver, playerInvincible,
                 powerLeft, collisionEffectPlaying, effLeft, effCb, graceLeft,
                 gameOverQueuedReason, score, prevScore, lastDistanceThreshold,
                 rewardShown, rewardActive, rewardPermanentStop, tickerStarted,
                 spaceHeld>>
runVars    == <<frames, idled, overFrames, presses, strayed, behindFrames, takeover,
               flight, session, ev>>
nonMapVars == <<playerVars, plast, airJumps, sessionVars, runVars>>
vars       == <<mapVars, callVars, playerVars, plast, airJumps, sessionVars, runVars,
               spinePlayerInstance>>

----------------------------------------------------------------------------
(* Units                                                                   *)

Hz == 20          \* ticks per second: deltaSec = k / Hz
XU == 20000       \* world-X units per pixel
YU == 2           \* Y units per pixel
SU == 5           \* speed units per pixel-per-second

Px(n) == n * XU
Py(n) == n * YU

\* scroll gained per tick by one speed unit: (1/SU px/s) * (1/Hz s) in XU
XPerSpeedTick == XU \div (SU * Hz)

Min(a, b) == IF a < b THEN a ELSE b
Max(a, b) == IF a > b THEN a ELSE b

----------------------------------------------------------------------------
(* Program constants                                                       *)

WIDTH  == 1920
HEIGHT == 1080
mainGroundY == 2280            \* const groundY = HEIGHT + 1200
patternYOffset == 0 - 1000     \* createGameplay({... patternYOffset: -1000 ...})
groundThickness == 160         \* patternGroundThickness: 160
baseInitialSpeed == 200        \* initialSpeed: 200
speedAccel == 8                \* speedAccel: 8
PIT_INTERVAL == 1600
LEGACY_PIT_WIDTH == 160
PIT_SPAWN_AHEAD == 1536        \* this.WIDTH * 0.8
OB_SPAWN_AHEAD == 1728         \* this.WIDTH * 0.9
GC_MARGIN == 200               \* (this.scroll - 200)

groundY == Py(mainGroundY)
\* p.container.y = this.groundY + this.patternYOffset
worldGroundTop == groundY + Py(patternYOffset)

PLAYER_X == 150
playerRadius == 28
PLAYER_SPAWN_LIFT == 80
jumpSpeed == 1400              \* createCharacter({... jumpSpeed: 1400 ...})
gravity == 4000                \* gravity: 4000
holdGravityPct == 45           \* (gravity * 0.45)
maxJumps == 2
maxJumpHoldTime == 5           \* 0.25 s, in ticks

PLAYER_SPEED_PCT == 1015       \* PLAYER_SPEED_FACTOR = 1.015, in thousandths
REWARD_THRESHOLD == 1500
POINTS_PER_100PX == 15
TIER_POINTS == 1000
GAME_OVER_GRACE == 8           \* GAME_OVER_GRACE_MS = 400, in ticks
EFFECT_DURATION == 11          \* dur = 520 ms: over at the first tick past it
POWER_DURATION == 200          \* totalMs = 10000, in ticks
PIT_VY_MIN == 60               \* vy > 60
PIT_DEPTH_MIN == 12            \* playerBottom > surfaceY + 12
BEHIND_MARGIN == 10            \* behindThreshold = -playerRadius - 10
OFFSCREEN_MARGIN == 500        \* screenY > HEIGHT + 500

----------------------------------------------------------------------------
(* Bounds of the MapHandler harness                                        *)

MaxCalls == 4         \* calls on the MapHandler per run

\* frame times handed to MapHandler.update by the harness, in ticks
MapDts == {0, 2, 100}

----------------------------------------------------------------------------
(* Pattern factories as seen by MapHandler.addPattern: what the call       *)
(* factory(startX) does (throw, or return a PatternData) and what          *)
(* p.container.getLocalBounds() then answers.  Lengths are pixels; pit and *)
(* obstacle entries carry valid = FALSE for an entry on which property     *)
(* access throws (null).                                                   *)

Pit(x, w)         == [x |-> Px(x), width |-> Px(w), valid |-> TRUE]
BadPit            == [x |-> 0, width |-> 0, valid |-> FALSE]
Ob(x, w, h)       == [x |-> Px(x), width |-> Px(w), height |-> Py(h), valid |-> TRUE]
BadOb             == [x |-> 0, width |-> 0, height |-> 0, valid |-> FALSE]

PatternData(len, hasB, bx, bw, pts, obs, off) ==
    [throws |-> FALSE, length |-> Px(len), hasBounds |-> hasB,
     bx |-> Px(bx), bw |-> Px(bw), pits |-> pts, obstacles |-> obs,
     playerYOffset |-> Py(off)]

ThrowingFactory == [PatternData(0, FALSE, 0, 0, <<>>, <<>>, 0) EXCEPT !.throws = TRUE]

\* the addPattern calls of the harness: <<factory, startX>>
MapAdds ==
    { <<ThrowingFactory, Px(150)>>,
      <<PatternData(100, TRUE, 0, 0, <<>>, <<>>, 0), Px(0)>>,
      <<PatternData(100, TRUE, 0 - 20, 140, <<>>, <<>>, 0 - 8), Px(150)>>,
      <<PatternData(100, FALSE, 0 - 20, 140, <<>>, <<>>, 0), Px(0)>>,
      <<PatternData(200, TRUE, 0, 200, <<Pit(50, 30)>>, <<Ob(120, 20, 40)>>, 0), Px(150)>>,
      <<PatternData(100, TRUE, 0, 100, <<Pit(10, 20), BadPit>>, <<Ob(40, 20, 40)>>, 0), Px(0)>>,
      <<PatternData(100, TRUE, 0, 100, <<>>, <<Ob(40, 20, 40), BadOb>>, 0), Px(150)>> }

----------------------------------------------------------------------------
(* MapHandler                                                              *)

\* index of the first entry on which the registration loop throws
FirstBad(s) ==
    IF \E i \in 1..Len(s) : ~s[i].valid
    THEN CHOOSE i \in 1..Len(s) : ~s[i].valid /\ \A j \in 1..(i - 1) : s[j].valid
    ELSE Len(s) + 1
GoodPrefix(s) == SubSeq(s, 1, FirstBad(s) - 1)
LoopThrows(s) == FirstBad(s) <= Len(s)

\* let visualStart / visualLength (gameplay.ts 86-95)
visualStart(p, startX) == IF p.hasBounds THEN startX + p.bx ELSE startX

\* variant: the span always takes the nominal length
nominalLength(p) == p.length

visualLength(p) == IF p.hasBounds /\ p.bw # 0 THEN p.bw ELSE p.length

PatternEntry(p, startX) ==
    [start |-> visualStart(p, startX), length |-> visualLength(p),
     top |-> worldGroundTop - Py(groundThickness),
     playerYOffset |-> p.playerYOffset]

GroundCollider(p, startX) ==
    [x |-> visualStart(p, startX), width |-> visualLength(p),
     height |-> Py(groundThickness),
     top |-> worldGroundTop - Py(groundThickness), isGround |-> TRUE]

\* variant: a declared pit keeps its pattern-local x
PitEntryLocal(pit, startX) == [x |-> pit.x, width |-> pit.width]

PitEntry(pit, startX) == [x |-> startX + pit.x, width |-> pit.width]

HazardCollider(ob, startX) ==
    [x |-> startX + ob.x, width |-> ob.width, height |-> ob.height,
     top |-> worldGroundTop - ob.height, isGround |-> FALSE]

\* addPattern(factory, startX) on the lists m = [patterns, obstacles, pits]:
\* the lists after the call and what it returns
addPatternTo(m, p, startX) ==
    IF p.throws
    THEN [patterns |-> m.patterns, obstacles |-> m.obstacles, pits |-> m.pits,
          ret |-> "null"]
    ELSE
      LET pats == Append(m.patterns, PatternEntry(p, startX))
          obs1 == Append(m.obstacles, GroundCollider(p, startX))
          gp == GoodPrefix(p.pits)
          go == GoodPrefix(p.obstacles)
          pits1 == m.pits \o [i \in 1..Len(gp) |-> PitEntry(gp[i], startX)]
          obs2 == IF LoopThrows(p.pits) THEN obs1
                  ELSE obs1 \o [i \in 1..Len(go) |-> HazardCollider(go[i], startX)]
          threw == LoopThrows(p.pits) \/ LoopThrows(p.obstacles)
      IN [patterns |-> pats, obstacles |-> obs2, pits |-> pits1,
          ret |-> IF threw THEN "null" ELSE "pattern"]

\* variant: the span is reserved before the factory is called
addPatternSpanFirst(p, startX) ==
    [patterns  |-> Append(patterns, [start |-> startX, length |-> 0,
                                     top |-> worldGroundTop - Py(groundThickness),
                                     playerYOffset |-> 0]),
     obstacles |-> obstacles, pits |-> pits, ret |-> "null"]

\* addPattern on the handler's own lists
addPattern(p, startX) ==
    addPatternTo([patterns |-> patterns, obstacles |-> obstacles, pits |-> pits],
                 p, startX)

InSpan(x, s, len) == x >= s /\ x <= s + len

isOnPatternIn(pats, wx) ==
    \E i \in 1..Len(pats) : InSpan(wx, pats[i].start, pats[i].length)
isOnPattern(wx) == isOnPatternIn(patterns, wx)

\* variant: the span placed last decides
SurfaceInLatest(pats, wx) ==
    IF isOnPatternIn(pats, wx)
    THEN LET i == CHOOSE i \in 1..Len(pats) :
                    /\ InSpan(wx, pats[i].start, pats[i].length)
                    /\ \A j \in (i + 1)..Len(pats) :
                          ~InSpan(wx, pats[j].start, pats[j].length)
         IN pats[i].top + pats[i].playerYOffset
    ELSE groundY

\* getSurfaceYAt (gameplay.ts 194-203): the first span holding wx decides
SurfaceIn(pats, wx) ==
    IF isOnPatternIn(pats, wx)
    THEN LET i == CHOOSE i \in 1..Len(pats) :
                    /\ InSpan(wx, pats[i].start, pats[i].length)
                    /\ \A j \in 1..(i - 1) :
                          ~InSpan(wx, pats[j].start, pats[j].length)
         IN pats[i].top + pats[i].playerYOffset
    ELSE groundY

getSurfaceYAt(wx) == SurfaceIn(patterns, wx)

isOverPitIn(ps, wx) ==
    \E i \in 1..Len(ps) : InSpan(wx, ps[i].x, ps[i].width)
isOverPit(wx) == isOverPitIn(pits, wx)

getObstacles == obstacles

\* cleanup obstacles behind camera (gameplay.ts 251-255)
RECURSIVE CleanupBehind(_, _)
CleanupBehind(obs, scr) ==
    IF obs # <<>> /\ obs[1].x + obs[1].width < scr - Px(GC_MARGIN)
    THEN CleanupBehind(Tail(obs), scr)
    ELSE obs

\* the legacy pit pushed by update, if any (gameplay.ts 221-227)
LegacyPits(ps, scr) ==
    IF scr >= (IF ps # <<>> THEN ps[Len(ps)].x - Px(PIT_INTERVAL) ELSE Px(PIT_INTERVAL))
    THEN <<[x |-> scr + Px(PIT_SPAWN_AHEAD), width |-> Px(LEGACY_PIT_WIDTH)]>>
    ELSE <<>>

\* the legacy obstacle pushed by update when Math.random() < 0.01:
\* rnd.spawn is that draw, rnd.jitter = Math.random()*120 and rnd.size in pixels
LegacyObstacles(allow, rnd, scr) ==
    IF allow /\ rnd.spawn
    THEN <<[x |-> scr + Px(OB_SPAWN_AHEAD) + Px(rnd.jitter), width |-> Px(rnd.size),
            height |-> Py(rnd.size), top |-> Py(HEIGHT - 120) - Py(rnd.size),
            isGround |-> FALSE]>>
    ELSE <<>>

NoSpawn == [spawn |-> FALSE, jitter |-> 0, size |-> 80]
RandomDraws == {NoSpawn, [spawn |-> TRUE, jitter |-> 60, size |-> 80]}

\* variant: the scroll advances by the speed the call started with
updateOldSpeed(k, rnd) ==
    LET sp  == speed + (speedAccel * k * SU) \div Hz
        scr == scroll + speed * k * XPerSpeedTick
        ps  == pits \o LegacyPits(pits, scr)
        obs == CleanupBehind(obstacles \o LegacyObstacles(allowRandomObstacles, rnd, scr), scr)
    IN [speed |-> sp, scroll |-> scr, pits |-> ps, obstacles |-> obs,
        worldOffset |-> 0 - scr, ret |-> [scroll |-> scr, speed |-> sp]]

\* update(deltaSec, speedAccel) with deltaSec = k ticks: the new fields, the
\* world.x it sets and the object it returns
update(k, rnd) ==
    LET sp  == speed + (speedAccel * k * SU) \div Hz
        scr == scroll + sp * k * XPerSpeedTick
        ps  == pits \o LegacyPits(pits, scr)
        obs == CleanupBehind(obstacles \o LegacyObstacles(allowRandomObstacles, rnd, scr), scr)
    IN [speed |-> sp, scroll |-> scr, pits |-> ps, obstacles |-> obs,
        worldOffset |-> 0 - scr, ret |-> [scroll |-> scr, speed |-> sp]]

----------------------------------------------------------------------------
(* The player (createCharacter, character.ts 62-147) as a record           *)

ThePlayer ==
    [worldX |-> worldX, y |-> y, vy |-> vy, onGround |-> onGround,
     jumpsLeft |-> jumpsLeft, jumpHoldTime |-> jumpHoldTime,
     holdingJump |-> holdingJump]

\* the player main.ts creates: createCharacter({groundY: groundY -
\* PLAYER_SPAWN_LIFT, ...}), then player.worldX = PLAYER_X (main.ts 218-225)
NewPlayer ==
    [worldX |-> Px(PLAYER_X),
     y |-> groundY - Py(PLAYER_SPAWN_LIFT) - Py(playerRadius),
     vy |-> 0, onGround |-> TRUE,
     jumpsLeft |-> maxJumps, jumpHoldTime |-> 0, holdingJump |-> FALSE]

\* variant: only mid-air jumps consume jumpsLeft
jumpAirOnly(pl) ==
    IF pl.onGround
    THEN [pl |-> [pl EXCEPT !.vy = 0 - jumpSpeed, !.onGround = FALSE], ret |-> TRUE]
    ELSE IF pl.jumpsLeft > 0
    THEN [pl |-> [pl EXCEPT !.vy = 0 - jumpSpeed,
                            !.jumpsLeft = Max(0, pl.jumpsLeft - 1)], ret |-> TRUE]
    ELSE [pl |-> pl, ret |-> FALSE]

\* variant: a jump from the ground leaves onGround set
jumpStaysGrounded(pl) ==
    LET canJump == pl.onGround \/ pl.jumpsLeft > 0 IN
    IF canJump
    THEN [pl |-> [pl EXCEPT !.vy = 0 - jumpSpeed,
                            !.jumpsLeft = Max(0, pl.jumpsLeft - 1)], ret |-> TRUE]
    ELSE [pl |-> pl, ret |-> FALSE]

\* jump() (character.ts 77-96): onGround is cleared BEFORE the test of line 83,
\* so that test always passes and every successful jump consumes one
jump(pl) ==
    LET canJump == pl.onGround \/ pl.jumpsLeft > 0 IN
    IF canJump
    THEN LET p1 == [pl EXCEPT !.vy = 0 - jumpSpeed, !.onGround = FALSE]
             p2 == IF ~p1.onGround
                   THEN [p1 EXCEPT !.jumpsLeft = Max(0, p1.jumpsLeft - 1)]
                   ELSE p1
         IN [pl |-> p2, ret |-> TRUE]
    ELSE [pl |-> pl, ret |-> FALSE]

\* startJumpHold() (character.ts 97-103)
startJumpHold(pl) ==
    LET did == jump(pl) IN
    [pl |-> [did.pl EXCEPT !.holdingJump = TRUE, !.jumpHoldTime = 0],
     ret |-> did.ret]

\* endJumpHold() (character.ts 104-107)
endJumpHold(pl) == [pl EXCEPT !.holdingJump = FALSE, !.jumpHoldTime = 0]

\* vy * deltaSec, in Y units (vy is always a multiple of Hz / YU)
DeltaY(v, k) == (v * k * YU) \div Hz

\* lines 110-116: gravity, reduced while the jump is held
Integrate(pl, k) ==
    IF pl.holdingJump /\ pl.jumpHoldTime < maxJumpHoldTime /\ pl.vy < 0
    THEN [pl EXCEPT !.vy = pl.vy + (gravity * holdGravityPct * k) \div (100 * Hz),
                    !.jumpHoldTime = pl.jumpHoldTime + k]
    ELSE [pl EXCEPT !.vy = pl.vy + (gravity * k) \div Hz]

\* variant: the landing test without "was above the surface"
CrossedNoPrev(prevY, newY, newVy, groundTop) == newY >= groundTop /\ newVy >= 0

\* line 124: the surface was crossed from above
Crossed(prevY, newY, newVy, groundTop) ==
    prevY < groundTop /\ newY >= groundTop /\ newVy >= 0

\* update(deltaSec) (character.ts 108-137), surfaceY being the answer of
\* getGroundY(this.worldX)
playerUpdate(pl, k, surfaceY) ==
    LET p1 == Integrate(pl, k)
        prevY == p1.y
        newY == prevY + DeltaY(p1.vy, k)
        groundTop == surfaceY - Py(playerRadius)
    IN IF Crossed(prevY, newY, p1.vy, groundTop)
       THEN [p1 EXCEPT !.y = groundTop, !.vy = 0, !.onGround = TRUE,
                       !.jumpsLeft = maxJumps]
       ELSE [p1 EXCEPT !.y = newY, !.onGround = FALSE]

\* player.getGroundY = (worldX) => handler.getSurfaceYAt(worldX) (main.ts 475-478)
getGroundY(x) == getSurfaceYAt(x)

\* startGame puts the player on the first pattern (main.ts 814-829);
\* pats is the handler's span list, whose first entry is the first pattern
PlacePlayer(pl, pats) ==
    LET firstLen == pats[1].length
        withinP1 == pl.worldX >= 0 /\ pl.worldX <= firstLen
        target == IF withinP1 THEN pl.worldX
                  ELSE Min(Px(100), Px((firstLen \div XU) \div 4))
    IN [pl EXCEPT !.worldX = target,
                  !.y = SurfaceIn(pats, target) - Py(playerRadius)
                         - Py(PLAYER_SPAWN_LIFT),
                  !.vy = 0, !.onGround = TRUE, !.jumpsLeft = maxJumps]

----------------------------------------------------------------------------
(* The MapHandler harness: the calls a host can make on a MapHandler built *)
(* as main.ts builds it                                                    *)

NoCall == [op |-> "none", startX |-> 0, threw |-> FALSE, ret |-> "none",
           declared |-> <<>>, dt |-> 0, out |-> <<>>]

SpanSet(ps) == {[x |-> ps[i].x, width |-> ps[i].width] : i \in 1..Len(ps)}

\* the world spans of the pits a pattern declares in local coordinates
DeclaredPitSpans(declared, startX) ==
    {[x |-> startX + declared[i].x, width |-> declared[i].width] :
        i \in 1..Len(declared)}

PlayerIs(pl) ==
    /\ worldX = pl.worldX
    /\ y = pl.y
    /\ vy = pl.vy
    /\ onGround = pl.onGround
    /\ jumpsLeft = pl.jumpsLeft
    /\ jumpHoldTime = pl.jumpHoldTime
    /\ holdingJump = pl.holdingJump

\* held: the ticks spent under reduced gravity since the last jump that
\* succeeded
NoPlayerCall == [op |-> "none", held |-> 0]

\* no jump from the ground is being followed
NoFlight == [st |-> "none", leftY |-> 0, n |-> 0, landY |-> 0]

\* the session init starts: no restart yet, gameplay set by startGame
FirstSession == [n |-> 0, loaded |-> TRUE, staleGrace |-> FALSE,
                 staleEffect |-> FALSE, shown |-> 0]

----------------------------------------------------------------------------
(* SpinePlayer (SpinePlayer.ts): the wrapper of the character animation.   *)
(* Time scales are in tenths.  Of the Spine runtime only the timeScale of  *)
(* the current entry of each track is kept; a track without an entry has   *)
(* NoEntry, a track without a saved scale Undefined.                       *)

Tracks == {0, 1}
NoEntry == -1
Undefined == -1
\* the timeScale of the entry state.setAnimation creates
ENTRY_TIME_SCALE == 10
\* the scales handed to setTimeScale: ts is clamped to [1, 2.2] (main.ts 1203-1208)
TimeScales == {10, 22}

\* new SpinePlayer() (SpinePlayer.ts 22-30), before load()
NewSpinePlayer ==
    [spine |-> FALSE, desiredTimeScale |-> 10,
     pausedTrackScales |-> [t \in Tracks |-> Undefined],
     tracks |-> [t \in Tracks |-> NoEntry],
     \* the record of the calls: the last call and its track, and for every
     \* track the pauseTrack calls since its last resumeTrack ("none", "one",
     \* "many", or "mixed" when another call has come between them) and the
     \* timeScale of its entry before the first of them
     op |-> "none", track |-> 0, hadEntry |-> FALSE, wasPaused |-> "none",
     wasBefore |-> 0,
     pauses |-> [t \in Tracks |-> "none"], before |-> [t \in Tracks |-> 0]]

\* play(animName, loop, track) for an animation that is available
\* (SpinePlayer.ts 163-175): setAnimation puts a new entry on the track
play(sp, track) ==
    IF ~sp.spine THEN sp ELSE [sp EXCEPT !.tracks[track] = ENTRY_TIME_SCALE]

\* setTimeScale(scale) (SpinePlayer.ts 229-255)
setTimeScale(sp, scale) ==
    IF ~sp.spine THEN sp
    ELSE LET s == Max(0, scale) IN
         [sp EXCEPT !.desiredTimeScale = s,
                    !.tracks = [t \in Tracks |->
                                  IF sp.tracks[t] = NoEntry
                                     \/ sp.pausedTrackScales[t] # Undefined
                                  THEN sp.tracks[t] ELSE s]]

\* variant: a track that is already paused keeps the scale saved for it
pauseTrackOnce(sp, track) ==
    IF ~sp.spine \/ sp.tracks[track] = NoEntry THEN sp
    ELSE IF sp.pausedTrackScales[track] # Undefined
    THEN [sp EXCEPT !.tracks[track] = 0]
    ELSE [sp EXCEPT !.pausedTrackScales[track] = sp.tracks[track],
                    !.tracks[track] = 0]

\* pauseTrack(track) (SpinePlayer.ts 299-309)
pauseTrack(sp, track) ==
    IF ~sp.spine \/ sp.tracks[track] = NoEntry THEN sp
    ELSE LET prev == sp.tracks[track] IN
         [sp EXCEPT !.pausedTrackScales[track] = prev, !.tracks[track] = 0]

\* resumeTrack(track) (SpinePlayer.ts 312-322)
resumeTrack(sp, track) ==
    IF ~sp.spine THEN sp
    ELSE LET prev == IF sp.pausedTrackScales[track] # Undefined
                     THEN sp.pausedTrackScales[track]
                     ELSE IF sp.desiredTimeScale # 0 THEN sp.desiredTimeScale
                     ELSE 10
             sp1 == [sp EXCEPT !.pausedTrackScales[track] = Undefined]
         IN IF sp.tracks[track] = NoEntry THEN sp1
            ELSE [sp1 EXCEPT !.tracks[track] = prev]

\* the session before the Play button: the declarations of init (main.ts
\* 310-333, 1416-1419, 1464-1465)
SessionIdle ==
    /\ pickups = <<>>
    /\ controlsEnabled = FALSE
    /\ playerDead = FALSE
    /\ gameOver = FALSE
    /\ playerInvincible = FALSE
    /\ powerLeft = 0 - 1
    /\ collisionEffectPlaying = FALSE
    /\ effLeft = 0 - 1
    /\ effCb = "none"
    /\ graceLeft = 0 - 1
    /\ gameOverQueuedReason = "null"
    /\ score = 0
    /\ prevScore = 0
    /\ lastDistanceThreshold = 0
    /\ rewardShown = FALSE
    /\ rewardActive = FALSE
    /\ rewardPermanentStop = FALSE
    /\ tickerStarted = TRUE
    /\ spaceHeld = FALSE
    /\ frames = 0
    /\ idled = 0
    /\ overFrames = 0
    /\ presses = 0
    /\ strayed = FALSE
    /\ behindFrames = 0
    /\ flight = NoFlight
    /\ session = FirstSession
    /\ takeover = 0
    /\ ev = [op |-> "none"]
    /\ spinePlayerInstance = NewSpinePlayer


MapInit ==
    /\ patterns = <<>>
    /\ obstacles = <<>>
    /\ pits = <<>>
    /\ scroll = 0
    /\ speed = baseInitialSpeed * SU
    /\ allowRandomObstacles \in BOOLEAN
    /\ planes = <<>>
    /\ cursor = 0
    /\ last = NoCall
    /\ placed = {}
    /\ failedAdds = 0
    /\ regPits = {}
    /\ calls = 0
    /\ PlayerIs(NewPlayer)
    /\ plast = NoPlayerCall
    /\ airJumps = 0
    /\ SessionIdle

MapAddPattern ==
    \E call \in MapAdds :
      LET p == call[1]
          startX == call[2]
          r == addPattern(p, startX) IN
        /\ calls < MaxCalls
        /\ patterns' = r.patterns
        /\ obstacles' = r.obstacles
        /\ pits' = r.pits
        /\ last' = [op |-> "addPattern", startX |-> startX, threw |-> p.throws,
                    ret |-> r.ret,
                    declared |-> IF p.throws THEN <<>> ELSE GoodPrefix(p.pits)]
        /\ placed' = IF r.ret = "pattern"
                     THEN placed \cup {[p |-> p, startX |-> startX]}
                     ELSE placed
        /\ failedAdds' = IF r.ret = "null" THEN failedAdds + 1 ELSE failedAdds
        /\ regPits' = regPits \cup DeclaredPitSpans(last'.declared, startX)
        /\ calls' = calls + 1
        /\ UNCHANGED <<scroll, speed, allowRandomObstacles, spinePlayerInstance, planes, cursor>>
        /\ UNCHANGED nonMapVars

MapUpdate ==
    \E k \in MapDts, rnd \in RandomDraws :
      LET r == update(k, rnd) IN
        /\ calls < MaxCalls
        /\ speed' = r.speed
        /\ scroll' = r.scroll
        /\ pits' = r.pits
        /\ obstacles' = r.obstacles
        /\ last' = [NoCall EXCEPT !.op = "update", !.dt = k,
                                   !.out = <<r.ret, r.worldOffset>>]
        /\ regPits' = regPits \cup SpanSet(LegacyPits(pits, r.scroll))
        /\ calls' = calls + 1
        /\ UNCHANGED <<patterns, allowRandomObstacles, spinePlayerInstance, planes, cursor, placed, failedAdds>>
        /\ UNCHANGED nonMapVars

\* reset() (gameplay.ts 278-286)
MapReset ==
    /\ calls < MaxCalls
    /\ scroll' = 0
    /\ speed' = baseInitialSpeed * SU
    /\ pits' = <<>>
    /\ obstacles' = <<>>
    /\ last' = [NoCall EXCEPT !.op = "reset"]
    /\ regPits' = {}
    /\ calls' = calls + 1
    /\ UNCHANGED <<patterns, allowRandomObstacles, spinePlayerInstance, planes, cursor, placed, failedAdds>>
    /\ UNCHANGED nonMapVars

\* the host registers a pit itself: getPits().push({x, width}) (main.ts 809)
HostPits == {[x |-> Px(100), width |-> Px(300)]}

MapHostPit ==
    \E pit \in HostPits :
        /\ calls < MaxCalls
        /\ pits' = Append(pits, pit)
        /\ last' = [NoCall EXCEPT !.op = "hostPit"]
        /\ regPits' = regPits \cup {pit}
        /\ calls' = calls + 1
        /\ UNCHANGED <<patterns, obstacles, scroll, speed, allowRandomObstacles, spinePlayerInstance, planes, cursor,
                       placed, failedAdds>>
        /\ UNCHANGED nonMapVars

MapNext == MapAddPattern \/ MapUpdate \/ MapReset \/ MapHostPit

SpecMap == MapInit /\ [][MapNext]_vars

----------------------------------------------------------------------------
(* Probe positions: every span and pit boundary of a state, one unit       *)
(* inside and outside of it, and the middle of every span                  *)

Around(a, len) == {a - 1, a, a + 1, a + len \div 2, a + len - 1, a + len, a + len + 1}

ProbesOf(pats, ps, calls_, regs) ==
    UNION ( {Around(pats[i].start, pats[i].length) : i \in 1..Len(pats)}
       \cup {Around(ps[i].x, ps[i].width) : i \in 1..Len(ps)}
       \cup {Around(c.startX + c.p.bx, c.p.bw) : c \in calls_}
       \cup {Around(c.startX, c.p.length) : c \in calls_}
       \cup {Around(r.x, r.width) : r \in regs} )

ProbeXs == ProbesOf(patterns, pits, placed, regPits)

----------------------------------------------------------------------------
(* C2: span coverage.  After any sequence of successful addPattern calls,  *)
(* isOnPattern(x) is true exactly for the x inside                         *)
(* [visualStart, visualStart + visualLength] of some placed pattern, where *)
(* visualStart = startX + renderedBounds.x and visualLength is the         *)
(* rendered width, or the nominal length when that width is 0 or           *)
(* unavailable.                                                            *)

RenderedStart(c) == c.startX + (IF c.p.hasBounds THEN c.p.bx ELSE 0)
RenderedLength(c) == IF c.p.hasBounds /\ c.p.bw > 0 THEN c.p.bw ELSE c.p.length

C2_SpanCoverage ==
    failedAdds = 0 =>
      \A x \in ProbeXs :
        isOnPattern(x) <=>
          \E c \in placed :
            x >= RenderedStart(c) /\ x <= RenderedStart(c) + RenderedLength(c)

\* two patterns placed, one of them with a left cap drawn at negative local
\* x, and a position left of its startX that is on the pattern
C2_Witness ==
    /\ failedAdds = 0
    /\ Cardinality(placed) >= 2
    /\ \E c \in placed :
         /\ c.p.hasBounds /\ c.p.bx < 0 /\ c.p.bw > c.p.length
         /\ isOnPattern(c.startX - 1)
         /\ isOnPattern(c.startX + c.p.bx + c.p.bw)
         /\ ~isOnPattern(c.startX + c.p.bx + c.p.bw + 1)

----------------------------------------------------------------------------
(* C3: no partial registration.  If the factory passed to addPattern       *)
(* throws, addPattern returns null and the pattern-span list, the collider *)
(* list and the pit list are what they were before the call.               *)

C3_FactoryThrowStep ==
    (calls' = calls + 1 /\ last'.op = "addPattern" /\ last'.threw) =>
        /\ last'.ret = "null"
        /\ patterns' = patterns
        /\ obstacles' = obstacles
        /\ pits' = pits

C3_NoPartialRegistration == [][C3_FactoryThrowStep]_vars

\* a throwing factory was called on a manager that already holds spans,
\* colliders and pits
C3_Witness ==
    /\ last.op = "addPattern" /\ last.threw /\ last.ret = "null"
    /\ patterns # <<>> /\ obstacles # <<>> /\ pits # <<>>

----------------------------------------------------------------------------
(* C35: addPattern is atomic on any error.  Whenever addPattern returns    *)
(* null, because the factory threw or because an entry of the returned     *)
(* pits or obstacles made the registration loop throw, the pattern-span    *)
(* list, the collider list and the pit list are what they were before the  *)
(* call.                                                                   *)

C35_NullStep ==
    (calls' = calls + 1 /\ last'.op = "addPattern" /\ last'.ret = "null") =>
        (patterns' = patterns /\ obstacles' = obstacles /\ pits' = pits)

C35_AtomicOnError == [][C35_NullStep]_vars

\* what a failed registration leaves behind: the span and the ground
\* collider are pushed before the loops run (gameplay.ts 105, 121), and so
\* are the entries that precede the bad one (gameplay.ts 130, 153)
C35_SpanAndColliderStay ==
    [][(calls' = calls + 1 /\ last'.op = "addPattern" /\ last'.ret = "null"
        /\ ~last'.threw) =>
          /\ Len(patterns') = Len(patterns) + 1
          /\ Len(obstacles') > Len(obstacles)
          /\ Len(pits') = Len(pits) + Len(last'.declared)]_vars

----------------------------------------------------------------------------
(* C9: pit independence.  isOverPit(x) is true iff x lies in               *)
(* [pit.x, pit.x + width] of some registered pit, whatever patterns cover  *)
(* x; a position can be on a pattern and over a pit at once.               *)
(* As claimed: adding patterns or removing colliders never changes the     *)
(* result of isOverPit.                                                    *)
(* As amended: adding a pattern changes isOverPit only at the pits that    *)
(* pattern declares (registered at startX + pit.x), and an update that     *)
(* removes colliders changes isOverPit only by the legacy pit that update  *)
(* itself pushes.                                                          *)

C9_OverPitIffRegistered ==
    \A x \in ProbeXs :
      isOverPit(x) <=> \E r \in regPits : x >= r.x /\ x <= r.x + r.width

StepProbes == ProbesOf(patterns, pits, placed, regPits)
                \cup ProbesOf(patterns', pits', placed', regPits')

IsAddStep == calls' = calls + 1 /\ last'.op = "addPattern"
IsCollectingUpdate ==
    /\ calls' = calls + 1 /\ last'.op = "update"
    /\ \E i \in 1..Len(obstacles) :
         \A j \in 1..Len(obstacles') : obstacles'[j] # obstacles[i]

C9_OriginalStep ==
    (IsAddStep \/ IsCollectingUpdate) =>
        \A x \in StepProbes : isOverPitIn(pits', x) <=> isOverPit(x)

C9_Original == []C9_OverPitIffRegistered /\ [][C9_OriginalStep]_vars

C9_AmendedStep ==
    /\ IsAddStep =>
         \A x \in StepProbes :
           isOverPitIn(pits', x) <=>
             \/ isOverPit(x)
             \/ \E i \in 1..Len(last'.declared) :
                  /\ x >= last'.startX + last'.declared[i].x
                  /\ x <= last'.startX + last'.declared[i].x + last'.declared[i].width
    /\ IsCollectingUpdate =>
         \A x \in StepProbes :
           isOverPitIn(pits', x) <=>
             \/ isOverPit(x)
             \/ isOverPitIn(LegacyPits(pits, scroll'), x)

C9_PitIndependence == []C9_OverPitIffRegistered /\ [][C9_AmendedStep]_vars

\* a pattern that declares a pit inside its own span has just been added:
\* the pit's middle is on the pattern and over the pit
C9_Witness ==
    /\ last.op = "addPattern" /\ last.ret = "pattern" /\ last.declared # <<>>
    /\ \E i \in 1..Len(last.declared) :
         LET x == last.startX + last.declared[i].x + last.declared[i].width \div 2
         IN isOnPattern(x) /\ isOverPit(x)

----------------------------------------------------------------------------
(* The Player harness: the calls a host can make on the player, over a     *)
(* fixed world of two ground patterns with a gap between them              *)

MaxPlayerCalls == 10  \* calls on the player per run

\* frame times handed to Player.update, in ticks
PlayerDts == {1, 2}

GroundA == PatternData(750, TRUE, 0, 750, <<>>, <<>>, 0 - 8)
GroundB == PatternData(750, TRUE, 0, 750, <<>>, <<>>, 0)
PlayerWorld == <<PatternEntry(GroundA, Px(0)), PatternEntry(GroundB, Px(1050))>>

\* where the host may put the player: on A, over the gap
HarnessXs == {Px(PLAYER_X), Px(900)}

SetPlayer(pl) ==
    /\ worldX' = pl.worldX
    /\ y' = pl.y
    /\ vy' = pl.vy
    /\ onGround' = pl.onGround
    /\ jumpsLeft' = pl.jumpsLeft
    /\ jumpHoldTime' = pl.jumpHoldTime
    /\ holdingJump' = pl.holdingJump

PlayerInit ==
    /\ patterns = PlayerWorld
    /\ obstacles = <<>>
    /\ pits = <<>>
    /\ scroll = 0
    /\ speed = baseInitialSpeed * SU
    /\ allowRandomObstacles = FALSE
    /\ planes = <<>>
    /\ cursor = 0
    /\ last = NoCall
    /\ placed = {}
    /\ failedAdds = 0
    /\ regPits = {}
    /\ calls = 0
    /\ PlayerIs(PlacePlayer(NewPlayer, PlayerWorld))
    /\ plast = NoPlayerCall
    /\ airJumps = 0
    /\ SessionIdle

JumpRecord(name, r) ==
    [op |-> name, ret |-> r.ret, wasGrounded |-> onGround,
     leftBefore |-> jumpsLeft, vyBefore |-> vy, airBefore |-> airJumps,
     held |-> IF r.ret THEN 0 ELSE plast.held]

AirJumpsAfter(r) == IF r.ret /\ ~onGround THEN airJumps + 1 ELSE airJumps

PlayerJump ==
    LET r == jump(ThePlayer) IN
      /\ SetPlayer(r.pl)
      /\ plast' = JumpRecord("jump", r)
      /\ airJumps' = AirJumpsAfter(r)
      /\ calls < MaxPlayerCalls
      /\ calls' = calls + 1
      /\ UNCHANGED <<mapVars, spinePlayerInstance, last, placed, failedAdds, regPits, sessionVars, runVars>>

PlayerStartJumpHold ==
    LET r == startJumpHold(ThePlayer) IN
      /\ SetPlayer(r.pl)
      /\ plast' = JumpRecord("startJumpHold", r)
      /\ airJumps' = AirJumpsAfter(r)
      /\ calls < MaxPlayerCalls
      /\ calls' = calls + 1
      /\ UNCHANGED <<mapVars, spinePlayerInstance, last, placed, failedAdds, regPits, sessionVars, runVars>>

PlayerEndJumpHold ==
    /\ holdingJump
    /\ SetPlayer(endJumpHold(ThePlayer))
    /\ plast' = [op |-> "endJumpHold", held |-> plast.held]
    /\ calls < MaxPlayerCalls
    /\ calls' = calls + 1
    /\ UNCHANGED <<mapVars, spinePlayerInstance, last, placed, failedAdds, regPits, airJumps,
                   sessionVars, runVars>>

PlayerUpdate ==
    \E k \in PlayerDts :
      LET surfaceY == getGroundY(worldX)
          p1 == Integrate(ThePlayer, k)
          r == playerUpdate(ThePlayer, k, surfaceY) IN
        /\ SetPlayer(r)
        /\ plast' = [op |-> "update", prevY |-> y, newVy |-> p1.vy,
                     newY |-> y + DeltaY(p1.vy, k), surfaceY |-> surfaceY,
                     leftBefore |-> jumpsLeft, dt |-> k,
                     reduced |-> p1.jumpHoldTime > jumpHoldTime,
                     held |-> plast.held + (p1.jumpHoldTime - jumpHoldTime)]
        /\ airJumps' = IF r.onGround THEN 0 ELSE airJumps
        /\ calls < MaxPlayerCalls
      /\ calls' = calls + 1
      /\ UNCHANGED <<mapVars, spinePlayerInstance, last, placed, failedAdds, regPits, sessionVars, runVars>>

\* the host moves the player along the world (player.worldX = ...)
PlayerMove ==
    \E x \in HarnessXs :
        /\ x # worldX
        /\ worldX' = x
        /\ plast' = [op |-> "move", held |-> plast.held]
        /\ UNCHANGED <<y, vy, onGround, jumpsLeft, jumpHoldTime, holdingJump>>
        /\ calls < MaxPlayerCalls
    /\ calls' = calls + 1
    /\ UNCHANGED <<mapVars, spinePlayerInstance, last, placed, failedAdds, regPits, airJumps,
                   sessionVars, runVars>>

PlayerNext ==
    \/ PlayerJump
    \/ PlayerStartJumpHold
    \/ PlayerEndJumpHold
    \/ PlayerUpdate
    \/ PlayerMove

SpecPlayer == PlayerInit /\ [][PlayerNext]_vars

----------------------------------------------------------------------------
(* C1: landing on a crossing.  Player.update lands the player exactly when *)
(* the integration step crosses the surface downwards: iff the y before    *)
(* the step is strictly above surfaceY - radius, the integrated y is at or *)
(* below it and vy >= 0, the call ends with onGround = true, vy = 0 and    *)
(* y = surfaceY - radius.  A player already below the surface is never     *)
(* snapped up and ends the call with onGround = false.                     *)

JustUpdated == plast.op = "update"
UpdGroundTop == plast.surfaceY - Py(playerRadius)
UpdCrossing ==
    plast.prevY < UpdGroundTop /\ plast.newY >= UpdGroundTop /\ plast.newVy >= 0

C1_LandOnCrossing ==
    JustUpdated =>
        /\ UpdCrossing => (onGround /\ vy = 0 /\ y = UpdGroundTop)
        /\ ~UpdCrossing => ~onGround
        /\ plast.prevY > UpdGroundTop => (~onGround /\ y = plast.newY)

\* an update has just landed the player, pulling it back up from below the
\* surface line onto it
C1_Witness ==
    /\ JustUpdated /\ onGround /\ vy = 0
    /\ plast.prevY < UpdGroundTop /\ plast.newY > UpdGroundTop
    /\ y = UpdGroundTop

\* an update has just run on a player that was already below the surface
\* of the pattern it is over, falling: it was not snapped
C1_BelowCase ==
    /\ JustUpdated /\ isOnPattern(worldX)
    /\ plast.prevY > UpdGroundTop /\ plast.newVy >= 0
    /\ ~onGround /\ y > UpdGroundTop

----------------------------------------------------------------------------
(* C7: double-jump budget.  Starting grounded with maxJumps = 2, two       *)
(* consecutive airborne jumps succeed (each sets vy = -jumpSpeed) and      *)
(* bring jumpsRemaining to 0; a third airborne jump returns false and      *)
(* leaves vy unchanged; the next landing resets jumpsRemaining to          *)
(* maxJumps.  Stated on every jump made airborne, airBefore being the      *)
(* number of airborne jumps that succeeded since the player was grounded.  *)

JustJumped == plast.op \in {"jump", "startJumpHold"}

C7_DoubleJumpBudget ==
    /\ (JustJumped /\ ~plast.wasGrounded) =>
          /\ plast.ret <=> plast.airBefore < maxJumps
          /\ plast.ret => (vy = 0 - jumpSpeed
                            /\ jumpsLeft = maxJumps - (plast.airBefore + 1))
          /\ ~plast.ret => vy = plast.vyBefore
    /\ (JustUpdated /\ onGround) => jumpsLeft = maxJumps

----------------------------------------------------------------------------
(* C8: jumpsRemaining is consumed only by airborne jumps.  A successful    *)
(* jump() made while onGround leaves jumpsRemaining unchanged; a           *)
(* successful jump() made airborne decrements it by exactly 1.             *)

C8_OnlyAirborneConsumes ==
    (JustJumped /\ plast.ret) =>
        IF plast.wasGrounded
        THEN jumpsLeft = plast.leftBefore
        ELSE jumpsLeft = plast.leftBefore - 1

----------------------------------------------------------------------------
(* The game: the session of init (main.ts) as a record, so that one frame  *)
(* can be computed as the composition of its steps                         *)

TheGame ==
    [pl |-> ThePlayer, scroll |-> scroll, speed |-> speed, pits |-> pits,
     obstacles |-> obstacles, pickups |-> pickups,
     controlsEnabled |-> controlsEnabled, playerDead |-> playerDead,
     gameOver |-> gameOver, playerInvincible |-> playerInvincible,
     powerLeft |-> powerLeft,
     collisionEffectPlaying |-> collisionEffectPlaying,
     effLeft |-> effLeft, effCb |-> effCb,
     graceLeft |-> graceLeft, gameOverQueuedReason |-> gameOverQueuedReason,
     score |-> score, prevScore |-> prevScore,
     lastDistanceThreshold |-> lastDistanceThreshold,
     rewardShown |-> rewardShown, rewardActive |-> rewardActive,
     rewardPermanentStop |-> rewardPermanentStop,
     tickerStarted |-> tickerStarted,
     loaded |-> session.loaded,   \* gameplay is not null
     powerCalls |-> 0,     \* calls of activatePowerUp in the step
     powerUps |-> 0,       \* those of them that started the power-up
     passX |-> 0,          \* where the player stood when the pickup loop ran
     passY |-> 0,
     picked |-> 0,         \* 'pickup' events dispatched in the step
     gained |-> 0,         \* distance thresholds awarded in the step
     returned |-> FALSE,   \* the first ticker callback returned early
     log |-> <<>>]         \* the steps of the tick in the order they ran

\* what a step records for the claims: the lethal contacts it resolved, the
\* doGameOver calls it made, what the pit test saw, where the player stood
\* when the pickup loop ran and how many 'pickup' events it dispatched,
\* whether the first ticker callback returned before the distance scoring
\* and how many distance thresholds it awarded, whether the frame began with
\* the player standing on a ground collider with only that ground ahead, the
\* last landing the obstacle loop resolved (the top landed on, the bottom of
\* the player before and after the physics step and its velocity then) and
\* whether the loop clamped the player at the side of a collider
NoEvents(name) ==
    [op |-> name, contact |-> FALSE, contactInvincible |-> FALSE,
     calls |-> <<>>, pitCond |-> FALSE, pitTested |-> FALSE,
     queued |-> "null", cancelled |-> FALSE, effectDone |-> "none",
     passX |-> 0, passY |-> 0, picked |-> 0,
     powerCalls |-> 0, powerUps |-> 0, returned |-> FALSE, gained |-> 0,
     ran |-> FALSE,
     landed |-> FALSE, landTop |-> 0, landPrev |-> 0, landCurr |-> 0,
     landVy |-> 0, clamped |-> FALSE, log |-> <<>>,
     stale |-> FALSE]      \* the callback was scheduled before the last restart

\* playCollisionEffectAt(wx, wy, onComplete) (main.ts 1467-1500): a call made
\* while an effect is playing returns at once and its onComplete is lost
playCollisionEffectAt(g, cb) ==
    IF g.collisionEffectPlaying
    THEN g
    ELSE [g EXCEPT !.collisionEffectPlaying = TRUE, !.effLeft = EFFECT_DURATION,
                   !.effCb = cb]

\* variant: the on-pattern guard also holds back a forced call
doGameOverOutcomeNoForce(g, force) ==
    IF g.rewardActive \/ g.rewardPermanentStop THEN "reward"
    ELSE IF g.gameOver THEN "already"
    ELSE IF isOnPattern(g.pl.worldX) /\ g.pl.onGround THEN "grounded"
    ELSE "over"

\* variant: without the on-pattern guard
doGameOverOutcomeNoGuard(g, force) ==
    IF g.rewardActive \/ g.rewardPermanentStop THEN "reward"
    ELSE IF g.gameOver THEN "already"
    ELSE "over"

\* variant: without the gameOver guard
doGameOverOutcomeAgain(g, force) ==
    IF g.rewardActive \/ g.rewardPermanentStop THEN "reward"
    ELSE IF ~force /\ isOnPattern(g.pl.worldX) /\ g.pl.onGround THEN "grounded"
    ELSE "over"

\* the decision of doGameOver (main.ts 1507-1533): "reward" the overlay
\* guard, "already" the gameOver guard, "grounded" the on-pattern guard,
\* "over" when it goes through
doGameOverOutcome(g, force) ==
    IF g.rewardActive \/ g.rewardPermanentStop THEN "reward"
    ELSE IF g.gameOver THEN "already"
    ELSE IF ~force /\ isOnPattern(g.pl.worldX) /\ g.pl.onGround THEN "grounded"
    ELSE "over"

GameOverCall(g, reason, force, outcome) ==
    [reason |-> reason, force |-> force, outcome |-> outcome,
     gameOverBefore |-> g.gameOver,
     reward |-> g.rewardActive \/ g.rewardPermanentStop,
     onPattern |-> isOnPattern(g.pl.worldX), onGround |-> g.pl.onGround]

\* doGameOver(finalReason, force); e is the record of the step so far
doGameOver(ge, reason, force) ==
    LET g == ge.g
        outcome == doGameOverOutcome(g, force)
        e1 == [ge.e EXCEPT !.calls = Append(@, GameOverCall(g, reason, force, outcome))]
    IN [g |-> IF outcome = "over"
              THEN [g EXCEPT !.gameOver = TRUE, !.log = Append(@, "gameover")]
              ELSE g,
        e |-> e1]

\* queueGameOver(reason) (main.ts 1535-1554): the pending timer is replaced
queueGameOver(ge, reason) ==
    [g |-> [ge.g EXCEPT !.gameOverQueuedReason = reason,
                        !.graceLeft = GAME_OVER_GRACE],
     e |-> [ge.e EXCEPT !.queued = reason]]

\* activatePowerUp() (main.ts 1356-1413)
activatePowerUp(g) ==
    IF g.playerInvincible THEN [g EXCEPT !.powerCalls = @ + 1]
    ELSE [g EXCEPT !.playerInvincible = TRUE, !.powerLeft = POWER_DURATION,
                   !.powerCalls = @ + 1, !.powerUps = @ + 1]

TierCrossed(prev, new) == (new \div TIER_POINTS) > (prev \div TIER_POINTS)

\* the 'pickup' event listener (main.ts 867-891)
onPickup(g) ==
    LET g1 == playCollisionEffectAt(g, "none")
        g2 == [g1 EXCEPT !.prevScore = g1.score, !.score = g1.score + 1,
                         !.picked = @ + 1, !.log = Append(@, "score")]
    IN IF TierCrossed(g2.prevScore, g2.score) THEN activatePowerUp(g2) ELSE g2

\* the death sequence shared by the three contact sites (main.ts 1079-1084,
\* 1095-1100, 1118-1122)
Die(ge) ==
    [g |-> playCollisionEffectAt(
             [ge.g EXCEPT !.controlsEnabled = FALSE, !.playerDead = TRUE,
                          !.pl.vy = 0], "gameover"),
     e |-> [ge.e EXCEPT !.contact = TRUE]]

----------------------------------------------------------------------------
(* ticker 1 (main.ts 898-1352)                                             *)

PICKUP_HALF == 32     \* half the rendered size of a pickup sprite (px)

\* intersects(itemBounds, playerBounds) with the fallback player box
\* (main.ts 996-1002)
PickupHit(it, pl) ==
    /\ it.x - Px(PICKUP_HALF) < pl.worldX + Px(playerRadius)
    /\ it.x + Px(PICKUP_HALF) > pl.worldX - Px(playerRadius)
    /\ it.y - Py(PICKUP_HALF) < pl.y + Py(playerRadius)
    /\ it.y + Py(PICKUP_HALF) > pl.y - Py(playerRadius)

RECURSIVE PickupEvents(_, _)
PickupEvents(g, n) == IF n = 0 THEN g ELSE PickupEvents(onPickup(g), n - 1)

\* variant: a collected pickup stays in the list, its flag not set
CollectPickupsKeep(g) ==
    LET hit == {i \in 1..Len(g.pickups) : PickupHit(g.pickups[i], g.pl)}
    IN PickupEvents([g EXCEPT !.passX = g.pl.worldX, !.passY = g.pl.y],
                    Cardinality(hit))

\* the pickup loop (main.ts 964-1046): every pickup the player box touches
\* is collected, which dispatches one 'pickup' event each
CollectPickups(g) ==
    LET hit == {i \in 1..Len(g.pickups) : PickupHit(g.pickups[i], g.pl)}
        keep == SelectSeq(g.pickups, LAMBDA it : ~PickupHit(it, g.pl))
    IN PickupEvents([g EXCEPT !.pickups = keep, !.passX = g.pl.worldX,
                              !.passY = g.pl.y, !.log = Append(@, "pickups")],
                    Cardinality(hit))

Overlaps(o, pl) ==
    /\ pl.worldX + Px(playerRadius) > o.x
    /\ pl.worldX - Px(playerRadius) < o.x + o.width

\* variant: the landing leaves jumpsLeft as it is
LandOnKeepJumps(pl, o) ==
    [pl EXCEPT !.y = o.top - Py(playerRadius), !.vy = 0, !.onGround = TRUE]

\* landing on a collider (main.ts 1063-1069)
LandOn(pl, o) ==
    [pl EXCEPT !.y = o.top - Py(playerRadius), !.vy = 0, !.onGround = TRUE,
               !.jumpsLeft = maxJumps]

\* variant: the side block stops the centre of the player at the left edge
BlockAtEdge(pl, o) == [pl EXCEPT !.worldX = Min(pl.worldX, o.x)]

\* player.worldX = Math.min(player.worldX, o.x - playerRadius - 2)
\* (main.ts 1090)
BlockAt(pl, o) ==
    [pl EXCEPT !.worldX = Min(pl.worldX, o.x - Px(playerRadius) - Px(2))]

\* variant: the contact does not ask whether the player is invincible
HazardContactAlways(ge) ==
    LET d == Die(ge) IN [g |-> d.g, e |-> d.e, returned |-> TRUE]

\* a contact with a collider that is not ground: lethal unless invincible
HazardContact(ge) ==
    IF ge.g.playerInvincible
    THEN [g |-> ge.g, e |-> [ge.e EXCEPT !.contactInvincible = TRUE], returned |-> FALSE]
    ELSE LET d == Die(ge) IN [g |-> d.g, e |-> d.e, returned |-> TRUE]

\* the obstacle loop (main.ts 1051-1109) from collider i on; returned tells
\* that the ticker callback has returned
RECURSIVE ObstacleLoop(_, _, _)
ObstacleLoop(ge, i, prevBottom) ==
    IF i > Len(ge.g.obstacles)
    THEN [g |-> ge.g, e |-> ge.e, returned |-> FALSE]
    ELSE
      LET o == ge.g.obstacles[i]
          pl == ge.g.pl
          currBottom == pl.y + Py(playerRadius)
      IN IF ~Overlaps(o, pl)
         THEN ObstacleLoop(ge, i + 1, prevBottom)
         ELSE IF prevBottom <= o.top /\ currBottom >= o.top /\ pl.vy >= 0
         THEN LET g1 == [ge.g EXCEPT !.pl = LandOn(pl, o),
                                     !.log = Append(@, "landing")]
                  e1 == [ge.e EXCEPT !.landed = TRUE, !.landTop = o.top,
                                     !.landPrev = prevBottom,
                                     !.landCurr = currBottom, !.landVy = pl.vy]
                  r == IF o.isGround
                       THEN [g |-> g1, e |-> e1, returned |-> FALSE]
                       ELSE HazardContact([g |-> g1, e |-> e1])
              IN IF r.returned THEN r
                 ELSE ObstacleLoop([g |-> r.g, e |-> r.e], i + 1, prevBottom)
         ELSE IF currBottom > o.top
         THEN LET g1 == [ge.g EXCEPT !.pl = BlockAt(pl, o),
                                     !.log = Append(@, "blocking")]
                  e1 == [ge.e EXCEPT !.clamped = TRUE]
                  r == IF o.isGround
                       THEN [g |-> g1, e |-> e1, returned |-> FALSE]
                       ELSE HazardContact([g |-> g1, e |-> e1])
              IN IF r.returned THEN r
                 ELSE ObstacleLoop([g |-> r.g, e |-> r.e], i + 1, prevBottom)
         ELSE ObstacleLoop(ge, i + 1, prevBottom)

\* getBlockingObstacle (gameplay.ts 313-323): index of the first collider the
\* player box overlaps from above its top, 0 when there is none
getBlockingObstacle(obs, pl) ==
    LET blocks(i) == Overlaps(obs[i], pl) /\ pl.y + Py(playerRadius) > obs[i].top
    IN IF \E i \in 1..Len(obs) : blocks(i)
       THEN CHOOSE i \in 1..Len(obs) : blocks(i) /\ \A j \in 1..(i - 1) : ~blocks(j)
       ELSE 0

\* the general blocking test (main.ts 1112-1128)
BlockingTest(ge) ==
    LET b == getBlockingObstacle(ge.g.obstacles, ge.g.pl)
    IN IF b # 0 /\ ~ge.g.obstacles[b].isGround
       THEN LET r == HazardContact([g |-> [ge.g EXCEPT !.log = Append(@, "blocking")],
                                    e |-> ge.e])
            IN [r EXCEPT !.returned = TRUE]
       ELSE [g |-> ge.g, e |-> ge.e, returned |-> FALSE]

\* variant: the tier test reads the prevScore the last pickup left
DistanceScoreStalePrev(g) ==
    LET newThreshold == g.scroll \div Px(100) IN
    IF newThreshold > g.lastDistanceThreshold
    THEN LET g1 == [g EXCEPT !.score = g.score + (newThreshold - g.lastDistanceThreshold)
                                                   * POINTS_PER_100PX,
                             !.lastDistanceThreshold = newThreshold,
                             !.gained = newThreshold - g.lastDistanceThreshold]
         IN IF TierCrossed(g1.prevScore, g1.score) THEN activatePowerUp(g1) ELSE g1
    ELSE g

\* variant: lastDistanceThreshold is not brought up to the new threshold
DistanceScoreKeepThreshold(g) ==
    LET newThreshold == g.scroll \div Px(100) IN
    IF newThreshold > g.lastDistanceThreshold
    THEN LET g1 == [g EXCEPT !.prevScore = g.score,
                             !.score = g.score + (newThreshold - g.lastDistanceThreshold)
                                                   * POINTS_PER_100PX,
                             !.gained = newThreshold - g.lastDistanceThreshold]
         IN IF TierCrossed(g1.prevScore, g1.score) THEN activatePowerUp(g1) ELSE g1
    ELSE g

\* distance scoring (main.ts 1230-1247)
DistanceScore(g) ==
    LET newThreshold == g.scroll \div Px(100) IN
    IF newThreshold > g.lastDistanceThreshold
    THEN LET g1 == [g EXCEPT !.prevScore = g.score,
                             !.score = g.score + (newThreshold - g.lastDistanceThreshold)
                                                   * POINTS_PER_100PX,
                             !.lastDistanceThreshold = newThreshold,
                             !.gained = newThreshold - g.lastDistanceThreshold,
                             !.log = Append(@, "score")]
         IN IF TierCrossed(g1.prevScore, g1.score) THEN activatePowerUp(g1) ELSE g1
    ELSE g

\* the reward popup (main.ts 1250-1344): stops the ticker
RewardPopup(g) ==
    IF ~g.rewardShown /\ g.score >= REWARD_THRESHOLD
    THEN [g EXCEPT !.rewardShown = TRUE, !.rewardActive = TRUE,
                   !.rewardPermanentStop = TRUE, !.controlsEnabled = FALSE,
                   !.tickerStarted = FALSE]
    ELSE g

\* variant: the player advances at the camera speed
PlayerAdvanceCamera(sp, k) == sp * k * XPerSpeedTick

\* player.worldX += speed * PLAYER_SPEED_FACTOR * deltaSec, in X units
PlayerAdvance(sp, k) == (sp * k * PLAYER_SPEED_PCT * XPerSpeedTick) \div 1000

\* variant: the advance does not ask whether the player is dead
AdvancePlayerAlways(g, sp, k) == [g EXCEPT !.pl.worldX = @ + PlayerAdvance(sp, k)]

\* if (!playerDead) player.worldX += playerMoveSpeed * deltaSec (main.ts 907-911)
AdvancePlayer(g, sp, k) ==
    IF ~g.playerDead
    THEN [g EXCEPT !.pl.worldX = @ + PlayerAdvance(sp, k)]
    ELSE g

\* the first ticker callback, for a frame of k ticks
ticker1(ge, k) ==
    IF ~ge.g.loaded          \* if (!gameplay) return (main.ts 901-902)
    THEN [g |-> [ge.g EXCEPT !.returned = TRUE], e |-> ge.e]
    ELSE
    LET g0 == ge.g
        m  == update(k, NoSpawn)
        g1 == [g0 EXCEPT !.scroll = m.scroll, !.speed = m.speed, !.pits = m.pits,
                         !.obstacles = m.obstacles, !.log = Append(@, "advance")]
        g2 == AdvancePlayer(g1, m.speed, k)
        prevBottom == g2.pl.y + Py(playerRadius)
        g3 == [g2 EXCEPT !.pl = playerUpdate(g2.pl, k, getGroundY(g2.pl.worldX)),
                         !.log = Append(@, "physics")]
        g4 == CollectPickups(g3)
        r5 == ObstacleLoop([g |-> g4, e |-> ge.e], 1, prevBottom)
        r6 == IF r5.returned THEN r5 ELSE BlockingTest([g |-> r5.g, e |-> r5.e])
    IN IF r6.returned
       THEN [g |-> [r6.g EXCEPT !.returned = TRUE], e |-> r6.e]
       ELSE [g |-> RewardPopup(DistanceScore(r6.g)), e |-> r6.e]

----------------------------------------------------------------------------
(* ticker 2 (main.ts 1557-1592): the game-over checks of a frame           *)

\* variant: the pit-fall test without the depth condition
PitFallTestNoDepth(g) ==
    /\ isOverPitIn(g.pits, g.pl.worldX)
    /\ g.pl.vy > PIT_VY_MIN

\* the three conditions of the pit-fall test (main.ts 1562-1566)
PitFallTest(g) ==
    /\ isOverPitIn(g.pits, g.pl.worldX)
    /\ g.pl.vy > PIT_VY_MIN
    /\ g.pl.y + Py(playerRadius) > getGroundY(g.pl.worldX) + Py(PIT_DEPTH_MIN)

\* the off-camera test (main.ts 1574-1590); world.y is never moved, so the
\* screen position of the sprite is (worldX - scroll, y)
OffCameraTest(ge) ==
    LET g == ge.g
        screenX == g.pl.worldX - g.scroll
        screenY == g.pl.y
    IN IF screenX < Px(0 - playerRadius - BEHIND_MARGIN)
       THEN queueGameOver([ge EXCEPT !.g.log = Append(@, "offcamera")],
                          "behind-camera")
       ELSE IF screenY > Py(HEIGHT + OFFSCREEN_MARGIN)
       THEN queueGameOver([ge EXCEPT !.g.log = Append(@, "offcamera")],
                          "fell_offscreen")
       ELSE IF g.graceLeft >= 0 /\ g.gameOverQueuedReason = "behind-camera"
       THEN [g |-> [g EXCEPT !.graceLeft = 0 - 1, !.gameOverQueuedReason = "null"],
             e |-> [ge.e EXCEPT !.cancelled = TRUE]]
       ELSE ge

ticker2(ge) ==
    IF ge.g.gameOver THEN ge
    ELSE LET cond == PitFallTest(ge.g)
             ge1 == [g |-> [ge.g EXCEPT !.log = Append(@, "pitfall")],
                     e |-> [ge.e EXCEPT !.pitTested = TRUE, !.pitCond = cond]]
         IN IF cond
            THEN doGameOver(ge1, "fell-into-pit", FALSE)
            ELSE OffCameraTest(ge1)

----------------------------------------------------------------------------
(* startGame (main.ts 696-860): the layout loop.  One slot is what the     *)
(* random draws of one iteration come to: the factory chosen, whether its  *)
(* PatternData is tagged MEDIUM, and the pickup group spawned on it.       *)

PATTERN_LENGTH == 750
HOST_PIT_WIDTH == 300
DISTANCE_NORMAL_START == 4500
PICKUP_SPACING_MIN == 40
PICKUP_SPACING_MAX == 72

\* makeGroundPattern({leftEnd, rightEnd, length}) (patterns/groundOnly.ts)
makeGroundPattern(len) == PatternData(len, TRUE, 0, len, <<>>, <<>>, 0 - 8)

\* a Danger pattern: ground with one hazard box that rises above the ground
\* strip (a box no taller than groundThickness lies inside the strip)
makeDanger(len, hx, hw, hh) ==
    PatternData(len, TRUE, 0, len, <<>>, <<Ob(hx, hw, hh)>>, 0 - 8)

NoItems == [count |-> 0, base |-> 0, heightAbove |-> 0]
Slot(p, medium, items) == [p |-> p, medium |-> medium, items |-> items]

\* factoryToUse (main.ts 762-772)
factoryToUse(slot, cursorX) ==
    IF slot.p.throws \/ (slot.medium /\ cursorX < Px(DISTANCE_NORMAL_START))
    THEN makeGroundPattern(PATTERN_LENGTH)
    ELSE slot.p

\* the pickups of one iteration (main.ts 779-803), as the world position of
\* their centres
SpawnPickups(i, items, p, cursorX) ==
    LET vlen == visualLength(p) \div XU
        spacing == Min(PICKUP_SPACING_MAX,
                       Max(PICKUP_SPACING_MIN, vlen \div (items.count + 1)))
    IN IF i > 1 /\ items.count > 0 /\ vlen > 120
       THEN [ii \in 1..items.count |->
               [x |-> cursorX + Px(items.base + (ii - 1) * spacing),
                y |-> worldGroundTop - Py(items.heightAbove)]]
       ELSE <<>>

\* iterations i.. of the loop on the world w = [patterns, obstacles, pits,
\* pickups]
RECURSIVE SpawnPatterns(_, _, _, _)
SpawnPatterns(w, slots, i, cursorX) ==
    IF i > Len(slots) THEN w
    ELSE LET p == factoryToUse(slots[i], cursorX)
             m == addPatternTo(w, p, cursorX)
             vlen == visualLength(p)
             w1 == [patterns |-> m.patterns, obstacles |-> m.obstacles,
                    pits |-> Append(m.pits, [x |-> cursorX + vlen,
                                             width |-> Px(HOST_PIT_WIDTH)]),
                    pickups |-> w.pickups \o SpawnPickups(i, slots[i].items, p, cursorX)]
         IN SpawnPatterns(w1, slots, i + 1, cursorX + vlen + Px(HOST_PIT_WIDTH))

TakeOverEarly == 186  \* a run in which the user takes over on the first hazard pattern
FreeEarly == 18       \* animation frames of free play in that run
TakeOverLate == 288   \* a run in which the user takes over just before the reward
FreeLate == 24        \* animation frames of free play in that run
MaxOverFrames == 2    \* animation frames after gameOver is set
MaxStalls == 1        \* times the page stalls per run
MaxPresses == 2       \* keydowns of the user per run
MaxRestarts == 1      \* clicks on 'Play Again' per run
MaxRestartFrames == 5 \* animation frames after such a click
MaxLoadFrames == 1    \* those of them that come before startGame has loaded
FrameTicks == {2}     \* length of an animation frame, in ticks

\* the pit that follows the last but one of the NUM_PATTERNS patterns; the
\* patterns between the modelled ones and that pit are out of a run's reach
HorizonPitX == 100000

DANGER3_LENGTH == 300
Ground1 == makeGroundPattern(PATTERN_LENGTH)
Hazard1 == makeDanger(PATTERN_LENGTH, 400, 60, 200)
Hazard3 == makeDanger(DANGER3_LENGTH, 120, 60, 200)
\* a Danger pattern whose hazard box is taller than one frame of a jump rises
HazardTall == makeDanger(PATTERN_LENGTH, 400, 60, 300)
Items1 == [count |-> 3, base |-> 150, heightAbove |-> 300]

\* the draws of the first iterations of the layout loop
LayoutLow ==
       << Slot(Ground1, FALSE, NoItems),
         Slot(Hazard1, TRUE, NoItems),
         Slot(Ground1, FALSE, NoItems),
         Slot(ThrowingFactory, FALSE, NoItems),
         Slot(Ground1, FALSE, NoItems),
         Slot(Hazard1, TRUE, Items1),
         Slot(Ground1, FALSE, NoItems),
         Slot(Ground1, FALSE, NoItems),
         Slot(Ground1, FALSE, NoItems),
         Slot(Hazard3, TRUE, NoItems),
         Slot(Ground1, FALSE, NoItems) >>

\* the same draws with the tall hazard on the first Danger pattern
LayoutTall == [LayoutLow EXCEPT ![6] = Slot(HazardTall, TRUE, Items1)]

Layouts == {LayoutLow, LayoutTall}

\* the user plays by the book up to one of these frames, freely after it
TakeOvers == {TakeOverEarly, TakeOverLate}

\* the last frame of a run
LastFrame == IF session.n > 0 THEN MaxRestartFrames
             ELSE IF takeover = TakeOverEarly THEN TakeOverEarly + FreeEarly
             ELSE TakeOverLate + FreeLate

EmptyWorld == [patterns |-> <<>>, obstacles |-> <<>>, pits |-> <<>>, pickups |-> <<>>]

StartWorld(slots) ==
    LET w == SpawnPatterns(EmptyWorld, slots, 1, 0)
    IN [w EXCEPT !.pits = Append(@, [x |-> Px(HorizonPitX),
                                     width |-> Px(HOST_PIT_WIDTH)])]

\* the state when init returns (main.ts 1614-1615): startGame has built the
\* world and put the player on the first pattern, the controls are enabled
Init ==
    \E slots \in Layouts :
      LET w == StartWorld(slots) IN
        /\ patterns = w.patterns
        /\ obstacles = w.obstacles
        /\ pits = w.pits
        /\ scroll = 0
        /\ speed = baseInitialSpeed * SU
        /\ allowRandomObstacles = FALSE
        /\ planes = <<>>
        /\ cursor = 0
        /\ last = NoCall
        /\ placed = {}
        /\ failedAdds = 0
        /\ regPits = {}
        /\ calls = 0
        /\ PlayerIs(PlacePlayer(NewPlayer, w.patterns))
        /\ plast = NoPlayerCall
        /\ airJumps = 0
        /\ pickups = w.pickups
        /\ controlsEnabled = TRUE
        /\ playerDead = FALSE
        /\ gameOver = FALSE
        /\ playerInvincible = FALSE
        /\ powerLeft = 0 - 1
        /\ collisionEffectPlaying = FALSE
        /\ effLeft = 0 - 1
        /\ effCb = "none"
        /\ graceLeft = 0 - 1
        /\ gameOverQueuedReason = "null"
        /\ score = 0
        /\ prevScore = 0
        /\ lastDistanceThreshold = 0
        /\ rewardShown = FALSE
        /\ rewardActive = FALSE
        /\ rewardPermanentStop = FALSE
        /\ tickerStarted = TRUE
        /\ spaceHeld = FALSE
        /\ frames = 0
        /\ idled = 0
        /\ overFrames = 0
        /\ presses = 0
        /\ strayed = FALSE
        /\ behindFrames = 0
        /\ flight = NoFlight
        /\ session = FirstSession
        /\ spinePlayerInstance = NewSpinePlayer
        /\ takeover \in TakeOvers
        /\ ev = NoEvents("init")

SetGame(g) ==
    /\ SetPlayer(g.pl)
    /\ scroll' = g.scroll
    /\ speed' = g.speed
    /\ pits' = g.pits
    /\ obstacles' = g.obstacles
    /\ pickups' = g.pickups
    /\ controlsEnabled' = g.controlsEnabled
    /\ playerDead' = g.playerDead
    /\ gameOver' = g.gameOver
    /\ playerInvincible' = g.playerInvincible
    /\ powerLeft' = g.powerLeft
    /\ collisionEffectPlaying' = g.collisionEffectPlaying
    /\ effLeft' = g.effLeft
    /\ effCb' = g.effCb
    /\ graceLeft' = g.graceLeft
    /\ gameOverQueuedReason' = g.gameOverQueuedReason
    /\ score' = g.score
    /\ prevScore' = g.prevScore
    /\ lastDistanceThreshold' = g.lastDistanceThreshold
    /\ rewardShown' = g.rewardShown
    /\ rewardActive' = g.rewardActive
    /\ rewardPermanentStop' = g.rewardPermanentStop
    /\ tickerStarted' = g.tickerStarted

\* what SetGame leaves alone
gameFrame == <<patterns, allowRandomObstacles, planes, cursor, callVars, plast, airJumps, takeover,
               spinePlayerInstance>>

\* what only the key handlers move
gameRun == <<gameFrame, presses>>

\* a countdown after k ticks
Elapse(t, k) == IF t < 0 THEN t ELSE Max(0, t - k)

\* k ticks pass: the setTimeout timers run down, and so does the effect when
\* the page gets animation frames (raf)
TimePasses(g, k, raf) ==
    [g EXCEPT !.graceLeft = Elapse(@, k), !.powerLeft = Elapse(@, k),
              !.effLeft = IF raf THEN Elapse(@, k) ELSE @]

\* a callback that is due runs before more time passes
NoTimerDue == graceLeft # 0 /\ powerLeft # 0 /\ effLeft # 0

----------------------------------------------------------------------------
(* The game: animation frames, key events, timer callbacks                 *)

\* playing by the book: jump when the ground ends or a hazard stands within
\* PILOT_REACH px ahead, jump again when coming down over a gap, let go of
\* the key once the rise is over
PILOT_REACH == 60

HazardAhead ==
    \E i \in 1..Len(obstacles) :
        /\ ~obstacles[i].isGround
        /\ obstacles[i].x + obstacles[i].width > worldX - Px(playerRadius)
        /\ obstacles[i].x < worldX + Px(playerRadius) + Px(PILOT_REACH)

PilotWantsDown ==
    /\ controlsEnabled
    /\ ~spaceHeld
    /\ \/ onGround /\ (~isOnPattern(worldX + Px(PILOT_REACH)) \/ HazardAhead)
       \/ ~onGround /\ jumpsLeft > 0 /\ vy >= 0 /\ ~isOnPattern(worldX)

PilotWantsUp == spaceHeld /\ vy >= 0

Piloted == frames < takeover

\* the player with its centre at x
PlayerAt(x) == [ThePlayer EXCEPT !.worldX = x]

\* the player stands on the ground collider o (main.ts 1063-1069)
StandsOn(o) ==
    /\ o.isGround
    /\ Overlaps(o, ThePlayer)
    /\ y + Py(playerRadius) = o.top
    /\ onGround
    /\ vy = 0

\* at x the player box is over a ground collider of the height top and over
\* no other collider
OnlyGroundAt(x, top) ==
    /\ \E i \in 1..Len(obstacles) : Overlaps(obstacles[i], PlayerAt(x))
    /\ \A i \in 1..Len(obstacles) :
         Overlaps(obstacles[i], PlayerAt(x))
           => obstacles[i].isGround /\ obstacles[i].top = top

\* a living player stands on a ground collider and has nothing but that
\* ground at x
StandingRun(x) ==
    /\ ~playerDead
    /\ \E i \in 1..Len(obstacles) : StandsOn(obstacles[i])
    /\ OnlyGroundAt(x, y + Py(playerRadius))

\* the jump being followed, after a frame that ends as ge: it is dropped
\* when the player is no longer alive over a pattern or has touched a
\* collider that is not ground
FlightAfter(ge) ==
    IF flight.st # "air" THEN NoFlight
    ELSE IF \/ ge.g.playerDead \/ ge.g.gameOver
            \/ ~isOnPattern(ge.g.pl.worldX)
            \/ ge.e.contact \/ ge.e.contactInvincible
    THEN NoFlight
    ELSE IF ge.g.pl.onGround
    THEN [flight EXCEPT !.st = "landed", !.n = @ + 1, !.landY = ge.g.pl.y]
    ELSE [flight EXCEPT !.n = @ + 1]

\* the player is off the screen to the left by more than the margin of the
\* off-camera test, and is not standing on a pattern
BehindCamera(g) ==
    /\ g.pl.worldX - g.scroll < Px(0 - playerRadius - BEHIND_MARGIN)
    /\ ~(isOnPattern(g.pl.worldX) /\ g.pl.onGround)

\* the doGameOver calls of a step that went through: each shows the
\* game-over screen (main.ts 1524-1532)
Overs(e) == Cardinality({i \in 1..Len(e.calls) : e.calls[i].outcome = "over"})

\* animation frames that outlast the grace delay
GraceFrames == GAME_OVER_GRACE \div 2 + 2

\* one animation frame with the ticker running: both ticker callbacks
Frame ==
    \E k \in FrameTicks :
      \E r2 \in {ticker2(ticker1([g |-> TimePasses(TheGame, k, TRUE),
                                  e |-> NoEvents("frame")], k))} :
         /\ tickerStarted
         /\ frames < LastFrame
         /\ ~session.loaded => frames < MaxLoadFrames
         /\ Piloted => ~PilotWantsDown /\ ~PilotWantsUp
         /\ gameOver => overFrames < MaxOverFrames
         /\ NoTimerDue
         /\ SetGame(r2.g)
         /\ frames' = frames + 1
         /\ overFrames' = IF gameOver THEN overFrames + 1 ELSE 0
         /\ behindFrames' = IF BehindCamera(r2.g)
                             THEN Min(behindFrames + 1, GraceFrames) ELSE 0
         /\ strayed' = (r2.g.graceLeft >= 0
                        /\ ((graceLeft >= 0 /\ strayed)
                            \/ ~isOnPattern(r2.g.pl.worldX)))
         /\ ev' = [r2.e EXCEPT !.powerCalls = r2.g.powerCalls,
                                !.powerUps = r2.g.powerUps,
                                !.passX = r2.g.passX, !.passY = r2.g.passY,
                                !.picked = r2.g.picked, !.gained = r2.g.gained,
                                !.returned = r2.g.returned, !.log = r2.g.log,
                                !.ran = StandingRun(worldX + PlayerAdvance(r2.g.speed, k))]
         /\ flight' = FlightAfter(r2)
         /\ session' = [session EXCEPT
                          !.shown = @ + Overs(r2.e),
                          !.staleGrace = @ /\ r2.e.queued = "null"
                                           /\ r2.g.graceLeft >= 0]
         /\ UNCHANGED <<gameRun, spaceHeld, idled>>

\* keydown of Space / ArrowUp (main.ts 645-661)
KeyDown ==
    /\ ~spaceHeld
    /\ Piloted => PilotWantsDown
    /\ ~Piloted => presses < MaxPresses
    /\ spaceHeld' = TRUE
    /\ presses' = IF Piloted THEN presses ELSE presses + 1
    /\ IF controlsEnabled
       THEN SetPlayer(startJumpHold(ThePlayer).pl)
       ELSE UNCHANGED playerVars
    /\ UNCHANGED <<mapVars, spinePlayerInstance, callVars, plast, airJumps>>
    /\ flight' = IF controlsEnabled /\ onGround /\ isOnPattern(worldX)
                 THEN [st |-> "air", leftY |-> y, n |-> 0, landY |-> 0]
                 ELSE NoFlight
    /\ UNCHANGED <<frames, idled, overFrames, strayed, behindFrames, takeover, session, ev>>
    /\ UNCHANGED <<pickups, controlsEnabled, playerDead, gameOver, playerInvincible,
                   powerLeft, collisionEffectPlaying, effLeft, effCb, graceLeft,
                   gameOverQueuedReason, score, prevScore, lastDistanceThreshold,
                   rewardShown, rewardActive, rewardPermanentStop, tickerStarted>>

\* keyup (main.ts 664-669): ends the hold whatever the controls are
KeyUp ==
    /\ spaceHeld
    /\ Piloted => PilotWantsUp
    /\ spaceHeld' = FALSE
    /\ SetPlayer(endJumpHold(ThePlayer))
    /\ UNCHANGED <<mapVars, spinePlayerInstance, callVars, plast, airJumps, runVars>>
    /\ UNCHANGED <<pickups, controlsEnabled, playerDead, gameOver, playerInvincible,
                   powerLeft, collisionEffectPlaying, effLeft, effCb, graceLeft,
                   gameOverQueuedReason, score, prevScore, lastDistanceThreshold,
                   rewardShown, rewardActive, rewardPermanentStop, tickerStarted>>

\* the last step of the collision effect (main.ts 1486-1491)
EffectComplete ==
    LET g1 == [TheGame EXCEPT !.collisionEffectPlaying = FALSE,
                              !.effLeft = 0 - 1, !.effCb = "none"]
        e1 == [NoEvents("effect") EXCEPT !.effectDone = effCb,
                                         !.stale = session.staleEffect]
        r  == IF effCb = "gameover"
              THEN doGameOver([g |-> g1, e |-> e1], "hit-obstacle", TRUE)
              ELSE [g |-> g1, e |-> e1]
    IN /\ effLeft = 0
       /\ SetGame(r.g)
       /\ ev' = r.e
       /\ session' = [session EXCEPT !.shown = @ + Overs(r.e),
                                     !.staleEffect = FALSE]
       /\ UNCHANGED <<gameRun, spaceHeld, frames, idled, overFrames, strayed, behindFrames, flight>>

\* the callback of gameOverQueuedTimer (main.ts 1540-1553)
GraceFire ==
    LET g1 == [TheGame EXCEPT !.graceLeft = 0 - 1]
        r  == doGameOver([g |-> g1,
                          e |-> [NoEvents("grace") EXCEPT !.stale = session.staleGrace]],
                         gameOverQueuedReason, FALSE)
    IN /\ graceLeft = 0
       /\ SetGame(r.g)
       /\ ev' = r.e
       /\ session' = [session EXCEPT !.shown = @ + Overs(r.e),
                                     !.staleGrace = FALSE]
       /\ UNCHANGED <<gameRun, spaceHeld, frames, idled, overFrames, strayed, behindFrames, flight>>

\* the callback of powerTimeout (main.ts 1403-1411)
PowerEnd ==
    /\ powerLeft = 0
    /\ SetGame([TheGame EXCEPT !.playerInvincible = FALSE, !.powerLeft = 0 - 1])
    /\ ev' = NoEvents("power")
    /\ UNCHANGED <<gameRun, spaceHeld, frames, idled, overFrames, strayed, behindFrames, flight, session>>

\* ticks until the next of the timers ts is due
NextDue(ts) == CHOOSE t \in ts : t > 0 /\ \A u \in ts : u > 0 => t <= u

\* the page stalls (hidden tab) while a game-over is queued: no animation
\* frame until the grace timer is due
Stall ==
    /\ tickerStarted
    /\ ~Piloted
    /\ NoTimerDue
    /\ idled < MaxStalls
    /\ graceLeft > 0
    /\ SetGame(TimePasses(TheGame, graceLeft, FALSE))
    /\ idled' = idled + 1
    /\ ev' = NoEvents("stall")
    /\ UNCHANGED <<gameRun, spaceHeld, frames, overFrames, strayed, behindFrames, flight, session>>

\* the ticker is stopped: time passes until the next callback is due
Wait ==
    /\ ~tickerStarted
    /\ NoTimerDue
    /\ graceLeft > 0 \/ powerLeft > 0 \/ effLeft > 0
    /\ SetGame(TimePasses(TheGame, NextDue({graceLeft, powerLeft, effLeft}), TRUE))
    /\ ev' = NoEvents("wait")
    /\ UNCHANGED <<gameRun, spaceHeld, frames, idled, overFrames, strayed, behindFrames, flight, session>>

\* 'Later' on the reward overlay (main.ts 1331-1340)
RewardLater ==
    /\ rewardActive
    /\ SetGame([TheGame EXCEPT !.rewardActive = FALSE, !.rewardPermanentStop = FALSE,
                               !.controlsEnabled = TRUE, !.tickerStarted = TRUE])
    /\ ev' = NoEvents("later")
    /\ UNCHANGED <<gameRun, spaceHeld, frames, idled, overFrames, strayed, behindFrames, flight, session>>

\* the layout the random draws of a restart come to
RestartLayouts == {LayoutLow}

\* 'Play Again' on the game-over screen: restartGame up to its await
\* (main.ts 1425-1460).  The button is removed by the click (ui/gameOver.ts
\* 137-147).  The pickups and pattern containers are removed, gameplay is
\* reset and set to null; neither the grace timer nor the collision effect
\* nor the power-up is touched.
RestartBegin ==
    /\ gameOver
    /\ overFrames = 0       \* the click comes before the next animation frame
    /\ session.loaded
    /\ session.n < MaxRestarts
    /\ ~Piloted
    /\ pickups' = <<>>
    /\ patterns' = <<>>
    /\ obstacles' = <<>>
    /\ pits' = <<>>
    /\ scroll' = 0
    /\ speed' = baseInitialSpeed * SU
    /\ lastDistanceThreshold' = 0
    /\ worldX' = Px(PLAYER_X)
    /\ vy' = 0
    /\ playerDead' = FALSE
    /\ gameOver' = FALSE
    /\ controlsEnabled' = TRUE
    /\ prevScore' = 0
    /\ score' = 0
    /\ session' = [n |-> session.n + 1, loaded |-> FALSE,
                   staleGrace |-> graceLeft >= 0, staleEffect |-> effLeft >= 0,
                   shown |-> 0]
    /\ frames' = 0
    /\ takeover' = 0
    /\ overFrames' = 0
    /\ behindFrames' = 0
    /\ flight' = NoFlight
    /\ ev' = NoEvents("restart")
    /\ UNCHANGED <<y, onGround, jumpsLeft, jumpHoldTime, holdingJump>>
    /\ UNCHANGED <<playerInvincible, powerLeft, collisionEffectPlaying, effLeft,
                   effCb, graceLeft, gameOverQueuedReason, rewardShown,
                   rewardActive, rewardPermanentStop, tickerStarted, spaceHeld>>
    /\ UNCHANGED <<allowRandomObstacles, spinePlayerInstance, planes, cursor, callVars, plast, airJumps,
                   idled, presses, strayed>>

\* restartGame after its await: startGame has loaded the animations, made
\* a new gameplay, laid out the world and put the player on the first
\* pattern (main.ts 696-829)
RestartFinish ==
    \E slots \in RestartLayouts :
      LET w == StartWorld(slots) IN
        /\ ~session.loaded
        /\ patterns' = w.patterns
        /\ obstacles' = w.obstacles
        /\ pits' = w.pits
        /\ scroll' = 0
        /\ speed' = baseInitialSpeed * SU
        /\ pickups' = w.pickups
        /\ SetPlayer(PlacePlayer(ThePlayer, w.patterns))
        /\ session' = [session EXCEPT !.loaded = TRUE]
        /\ ev' = NoEvents("restarted")
        /\ UNCHANGED <<controlsEnabled, playerDead, gameOver, playerInvincible,
                       powerLeft, collisionEffectPlaying, effLeft, effCb, graceLeft,
                       gameOverQueuedReason, score, prevScore, lastDistanceThreshold,
                       rewardShown, rewardActive, rewardPermanentStop, tickerStarted,
                       spaceHeld>>
        /\ UNCHANGED <<allowRandomObstacles, spinePlayerInstance, planes, cursor, callVars, plast, airJumps,
                       frames, idled, overFrames, presses, strayed, behindFrames,
                       takeover, flight>>

Next ==
    \/ Frame
    \/ KeyDown
    \/ KeyUp
    \/ EffectComplete
    \/ GraceFire
    \/ PowerEnd
    \/ Stall
    \/ Wait
    \/ RewardLater
    \/ RestartBegin
    \/ RestartFinish

Spec == Init /\ [][Next]_vars

----------------------------------------------------------------------------
(* Pattern planes (main.ts 918-960).  The Danger5 factory is not among the *)
(* sources; what is modelled of it is what the ticker reads: a sprite in   *)
(* the pattern container flagged __isPatternPlane, with its local          *)
(* position, __vx, __platformWidth and __platformHeight, and an entry of   *)
(* PatternData.obstacles that addPattern registers as its collider.  The   *)
(* layouts of Spec draw no Danger5, so the step is empty in its frames.    *)

PLANE_VX == -220          \* ps.__vx || -220
PLANE_HEIGHT == 28        \* ps.__platformHeight || 28
MATCH_WIDTH == 8          \* Math.abs(o.width - gw) < 8
MATCH_X == 48             \* Math.abs(o.x - worldLeft) < 48

\* the plane sprite a Danger5 pattern of platform width w carries, in the
\* container placed at startX: at local x 500, its top 120 px above the
\* ground collider
PlaneSprite(startX, w) ==
    [cx |-> startX, cy |-> worldGroundTop, x |-> Px(500),
     y |-> 0 - Py(groundThickness + 120 - PLANE_HEIGHT),
     vx |-> 0, gw |-> Px(w), gh |-> Py(PLANE_HEIGHT)]

\* the pattern itself: ground, and the obstacle entry under the plane
makeDanger5(w) == makeDanger(PATTERN_LENGTH, 500, w, groundThickness + 120)

\* leftLocal and worldLeft, worldTop (main.ts 934-940), the anchor at 0
PlaneLeft(ps) == ps.cx + ps.x
PlaneTop(ps) == ps.cy + ps.y - ps.gh

\* variant: the plane moves twice as far as the collider search reaches
MovePlaneFast(ps, k) == [ps EXCEPT !.x = @ - Px(2 * MATCH_X)]

\* ps.x += (ps.__vx || -220) * deltaSec, for a frame of k ticks
MovePlane(ps, k) ==
    [ps EXCEPT !.x = @ + ((IF ps.vx # 0 THEN ps.vx ELSE PLANE_VX) * k * XU) \div Hz]

Dist(a, b) == IF a >= b THEN a - b ELSE b - a

\* the collider the search of main.ts 943-953 stops at: the first one of
\* similar width and nearby x, 0 when there is none
MatchingCollider(obs, ps) ==
    LET fits(i) == /\ Dist(obs[i].width, ps.gw) < Px(MATCH_WIDTH)
                   /\ Dist(obs[i].x, PlaneLeft(ps)) < Px(MATCH_X)
    IN IF \E i \in 1..Len(obs) : fits(i)
       THEN CHOOSE i \in 1..Len(obs) : fits(i) /\ \A j \in 1..(i - 1) : ~fits(j)
       ELSE 0

\* o.x = worldLeft; o.sprite.x = worldLeft; o.sprite.y = worldTop; break
SyncCollider(obs, ps) ==
    LET i == MatchingCollider(obs, ps)
    IN IF i = 0 THEN obs
       ELSE [obs EXCEPT ![i].x = PlaneLeft(ps), ![i].top = PlaneTop(ps)]

\* the plane loop from plane i on: [planes, obstacles] after it
RECURSIVE UpdatePlanes(_, _, _, _)
UpdatePlanes(pls, obs, i, k) ==
    IF i > Len(pls) THEN [planes |-> pls, obstacles |-> obs]
    ELSE LET ps == MovePlane(pls[i], k)
         IN UpdatePlanes([pls EXCEPT ![i] = ps], SyncCollider(obs, ps), i + 1, k)

MaxPlaneFrames == 225     \* animation frames of a run of the plane harness
VariedFrames == 7         \* the frames of it whose length varies
\* platform widths: twice the width of a hazard box, and that width
PlaneWidths == {120, 60}
PlaneTicks == {1, 2}

\* a layout whose sixth draw, past DISTANCE_NORMAL_START, is Danger5 and
\* whose fifth is a Danger pattern with a hazard box, not tagged MEDIUM
PlaneLayout(w) ==
    << Slot(Ground1, FALSE, NoItems),
       Slot(Ground1, FALSE, NoItems),
       Slot(Ground1, FALSE, NoItems),
       Slot(Ground1, FALSE, NoItems),
       Slot(Hazard1, FALSE, NoItems),
       Slot(makeDanger5(w), FALSE, NoItems) >>

PlaneInit ==
    \E pw \in PlaneWidths :
      LET w == SpawnPatterns(EmptyWorld, PlaneLayout(pw), 1, 0)
      IN /\ patterns = w.patterns
         /\ obstacles = w.obstacles
         /\ pits = w.pits
         /\ scroll = 0
         /\ speed = baseInitialSpeed * SU
         /\ allowRandomObstacles = FALSE
         /\ planes = <<PlaneSprite(5 * Px(PATTERN_LENGTH + HOST_PIT_WIDTH), pw)>>
         /\ cursor = 0
         /\ last = NoCall
         /\ placed = {}
         /\ failedAdds = 0
         /\ regPits = {}
         /\ calls = 0
         /\ PlayerIs(PlacePlayer(NewPlayer, w.patterns))
         /\ plast = NoPlayerCall
         /\ airJumps = 0
         /\ SessionIdle

\* the part of a tick the planes and the colliders depend on:
\* gameplay.update, then the plane loop (main.ts 905, 918-960); the player
\* and the session write neither
PlaneTick ==
    \E k \in PlaneTicks :
      LET m == update(k, NoSpawn)
          r == UpdatePlanes(planes, m.obstacles, 1, k)
      IN /\ frames < MaxPlaneFrames
         /\ frames >= VariedFrames => k = 2
         /\ scroll' = m.scroll
         /\ speed' = m.speed
         /\ pits' = m.pits
         /\ obstacles' = r.obstacles
         /\ planes' = r.planes
         /\ frames' = frames + 1
         /\ UNCHANGED <<patterns, allowRandomObstacles, spinePlayerInstance, cursor, callVars,
                        playerVars, plast, airJumps, sessionVars>>
         /\ UNCHANGED <<idled, overFrames, presses, strayed, behindFrames, takeover, flight, session, ev>>

SpecPlane == PlaneInit /\ [][PlaneTick]_vars

----------------------------------------------------------------------------
(* The layout loop of startGame, one iteration at a time (main.ts          *)
(* 741-813).  The Danger factories are not among the sources: what a call  *)
(* of one does (throw, or return a PatternData with some difficulty tag)   *)
(* is an input of the iteration.                                           *)

PROB_USE_DANGER == 70          \* 0.70, in hundredths
PROB_USE_DANGER_AFTER == 85    \* 0.85
DANGER4_LENGTH == 1200

\* DANGER_WEIGHTS, in tenths
DangerWeight(v) ==
    CASE v = "d1" -> 3 [] v = "d2" -> 2 [] v = "d3" -> 3 [] v = "d4" -> 2
      [] OTHER -> 3

\* the draw with r in thousandths against the thresholds t1..t4, the weights
\* summed in the order of the code; total is the sum of the weights in play
DrawDanger(r, total) ==
    LET w1 == DangerWeight("d1")
        w2 == w1 + DangerWeight("d2")
        w3 == w2 + DangerWeight("d3")
        w4 == w3 + DangerWeight("d4")
        below(c) == r * total < c * 1000
    IN IF below(w1) THEN "d1"
       ELSE IF below(w2) THEN "d2"
       ELSE IF below(w3) THEN "d4"
       ELSE IF below(w4) THEN "d3"
       ELSE "d5"

FourWeights ==
    DangerWeight("d1") + DangerWeight("d2") + DangerWeight("d3") + DangerWeight("d4")

\* variant: Danger5 takes part in the draw at every distance
ChooseFactoryAnywhere(u, r, cursorX) ==
    IF u < (IF cursorX >= Px(DISTANCE_NORMAL_START)
            THEN PROB_USE_DANGER_AFTER ELSE PROB_USE_DANGER)
    THEN DrawDanger(r, FourWeights + DangerWeight("d5"))
    ELSE "ground"

\* the factory an iteration chooses from its two Math.random() draws, u in
\* hundredths and r in thousandths (main.ts 743-760)
ChooseFactory(u, r, cursorX) ==
    LET probUseDangerNow == IF cursorX >= Px(DISTANCE_NORMAL_START)
                            THEN PROB_USE_DANGER_AFTER ELSE PROB_USE_DANGER
        includeD5 == cursorX >= Px(DISTANCE_NORMAL_START)
        total == FourWeights + (IF includeD5 THEN DangerWeight("d5") ELSE 0)
    IN IF u < probUseDangerNow THEN DrawDanger(r, total) ELSE "ground"

\* what the chosen factory builds when it does not throw
PatternOf(v) ==
    CASE v = "ground" -> Ground1
      [] v = "d3" -> Hazard3
      [] v = "d4" -> makeDanger(DANGER4_LENGTH, 400, 60, 200)
      [] v = "d5" -> makeDanger5(120)
      [] OTHER -> Hazard1

MaxLayoutSlots == 4       \* iterations of the layout loop in a run
DrawsU == {0, 75, 90}     \* Math.random() < probUseDangerNow, in hundredths
DrawsR == {0, 700, 999}   \* r, in thousandths
\* what the call of a Danger factory does
DangerCalls == {"MEDIUM", "HARD", "throws"}
\* x of the rendered bounds of the pattern a factory builds, in pixels: an
\* end cap or a decoration may reach left of the container's origin
LeftOffsets == {0, 0 - 20}

LayoutInit == MapInit /\ ~allowRandomObstacles

\* one iteration of the loop: the factory is chosen, wrapped and handed to
\* addPattern, no pickups are drawn, the host pit is pushed and the cursor
\* moves on
LayoutStep ==
    \E u \in DrawsU, r \in DrawsR, c \in DangerCalls \cup {"EASY"}, bx \in LeftOffsets :
      LET v == ChooseFactory(u, r, cursor)
          pd == IF c = "throws" THEN ThrowingFactory
                ELSE [PatternOf(v) EXCEPT !.bx = Px(bx)]
          slot == Slot(pd, c = "MEDIUM", NoItems)
          i == calls + 1
          used == factoryToUse(slot, cursor)
          w == SpawnPatterns([patterns |-> patterns, obstacles |-> obstacles,
                              pits |-> pits, pickups |-> pickups],
                             [j \in 1..i |-> slot], i, cursor)
          kept == ~pd.throws /\ used = pd
      IN /\ calls < MaxLayoutSlots
         /\ (v = "ground") = (c = "EASY")
         /\ c = "throws" => bx = 0
         /\ patterns' = w.patterns
         /\ obstacles' = w.obstacles
         /\ pits' = w.pits
         /\ pickups' = w.pickups
         /\ planes' = IF kept /\ v = "d5"
                       THEN Append(planes, PlaneSprite(cursor, 120)) ELSE planes
         /\ cursor' = cursor + visualLength(used) + Px(HOST_PIT_WIDTH)
         /\ calls' = i
         /\ last' = [op |-> "layout", startX |-> cursor, variant |-> v,
                      call |-> c, threw |-> pd.throws, left |-> used.bx,
                      difficulty |-> IF kept THEN c ELSE "EASY",
                      plane |-> kept /\ v = "d5",
                      ground |-> [used EXCEPT !.bx = 0] = makeGroundPattern(PATTERN_LENGTH)]
         /\ UNCHANGED <<scroll, speed, allowRandomObstacles, spinePlayerInstance, placed, failedAdds,
                        regPits, playerVars, plast, airJumps, runVars>>
         /\ UNCHANGED <<controlsEnabled, playerDead, gameOver, playerInvincible,
                        powerLeft, collisionEffectPlaying, effLeft, effCb,
                        graceLeft, gameOverQueuedReason, score, prevScore,
                        lastDistanceThreshold, rewardShown, rewardActive,
                        rewardPermanentStop, tickerStarted, spaceHeld>>

SpecLayout == LayoutInit /\ [][LayoutStep]_vars

----------------------------------------------------------------------------
(* The calls of SpinePlayer, in any order                                  *)

\* a call other than pauseTrack and resumeTrack has come in: it breaks the
\* run of pauses of every track that has one
Interleaved(sp) ==
    [sp EXCEPT !.pauses = [t \in Tracks |->
                             IF sp.pauses[t] = "none" THEN "none" ELSE "mixed"]]

Called(sp, name, track) ==
    [sp EXCEPT !.op = name, !.track = track,
               !.hadEntry = spinePlayerInstance.spine
                            /\ spinePlayerInstance.tracks[track] # NoEntry,
               !.wasPaused = spinePlayerInstance.pauses[track],
               !.wasBefore = spinePlayerInstance.before[track]]

restOfGame == <<mapVars, callVars, playerVars, plast, airJumps, sessionVars, runVars>>

\* load() has given the player its Spine object (SpinePlayer.ts 32-160)
SpineLoad ==
    /\ ~spinePlayerInstance.spine
    /\ spinePlayerInstance' = Called([spinePlayerInstance EXCEPT !.spine = TRUE], "load", 0)
    /\ UNCHANGED restOfGame

SpinePlay ==
    \E t \in Tracks :
      /\ spinePlayerInstance' = Called(Interleaved(play(spinePlayerInstance, t)), "play", t)
      /\ UNCHANGED restOfGame

SpineSetTimeScale ==
    \E s \in TimeScales :
      /\ spinePlayerInstance' =
            Called(Interleaved(setTimeScale(spinePlayerInstance, s)), "setTimeScale", 0)
      /\ UNCHANGED restOfGame

SpinePauseTrack ==
    \E t \in Tracks :
      LET sp == pauseTrack(spinePlayerInstance, t)
          acted == spinePlayerInstance.spine /\ spinePlayerInstance.tracks[t] # NoEntry
          n == spinePlayerInstance.pauses[t]
      IN /\ spinePlayerInstance' =
               Called([sp EXCEPT !.pauses[t] = IF ~acted THEN n
                                               ELSE IF n = "none" THEN "one"
                                               ELSE IF n = "one" THEN "many"
                                               ELSE n,
                                 !.before[t] = IF acted /\ n = "none"
                                               THEN spinePlayerInstance.tracks[t]
                                               ELSE @],
                      "pauseTrack", t)
         /\ UNCHANGED restOfGame

SpineResumeTrack ==
    \E t \in Tracks :
      LET sp == resumeTrack(spinePlayerInstance, t) IN
        /\ spinePlayerInstance' =
              Called([sp EXCEPT !.pauses[t] = "none", !.before[t] = 0],
                     "resumeTrack", t)
        /\ UNCHANGED restOfGame

SpineNext ==
    \/ SpineLoad
    \/ SpinePlay
    \/ SpineSetTimeScale
    \/ SpinePauseTrack
    \/ SpineResumeTrack

SpecSpine == LayoutInit /\ [][SpineNext]_vars

----------------------------------------------------------------------------
(* The death sequence (main.ts 1079-1084, 1095-1100, 1118-1122, 1467-1500)  *)

\* the frame that has just run resolved a lethal contact while the player was
\* not invincible
JustHit == ev.op = "frame" /\ ev.contact

\* the contact sets the three flags in that tick
C4_FlagsOnContact == JustHit => playerDead /\ ~controlsEnabled /\ vy = 0

\* a dead player whose collision effect has completed is in a finished run
C4_GameOverAfterEffect == (playerDead /\ ~collisionEffectPlaying) => gameOver

\* C4: every contact with a lethal obstacle while the player is not
\* invincible sets playerDead = true, controlsEnabled = false and
\* velocityY = 0 in that tick, and once the collision effect has completed the
\* forced game-over has happened: no state has a dead player, no effect
\* playing and gameOver still false.
C4_DeathSequence == C4_FlagsOnContact /\ C4_GameOverAfterEffect

----------------------------------------------------------------------------
(* doGameOver (main.ts 1507-1533)                                          *)

\* the step is a frame or a timer or effect callback that called doGameOver;
\* no step calls it twice, and the key handlers never call it
CallMade == spaceHeld' = spaceHeld /\ Len(ev'.calls) > 0

\* the footing doGameOver reads: the callbacks leave the player alone and the
\* frame calls it after the player has moved
FootingAtCall == isOnPattern(worldX') /\ onGround'

\* the overlay flags doGameOver reads
RewardAtCall == rewardActive' \/ rewardPermanentStop'

C5_Decision ==
    IF ev'.calls[1].force THEN gameOver' ELSE (gameOver' <=> ~FootingAtCall)

\* C5 as stated: a call made while gameOver is false is suppressed exactly
\* when it is not forced and the player is on a pattern and grounded.
C5_Original == [][(CallMade /\ ~gameOver) => C5_Decision]_vars

\* C5: when doGameOver is invoked while gameOver is false and no reward
\* overlay is active (rewardActive and rewardPermanentStop both false), a
\* non-forced call is suppressed exactly when isOnPattern(player.worldX) and
\* player.onGround are both true, and a forced call always sets gameOver.
C5_SuppressedIffGrounded ==
    [][(CallMade /\ ~gameOver /\ ~RewardAtCall) => C5_Decision]_vars

\* a forced call has just ended the run of a player standing on a pattern
C5_Witness ==
    /\ ev.op = "effect" /\ Len(ev.calls) = 1 /\ ev.calls[1].force
    /\ ~ev.calls[1].gameOverBefore
    /\ isOnPattern(worldX) /\ onGround
    /\ gameOver

----------------------------------------------------------------------------
(* The grace window (main.ts 1535-1554, 1574-1590)                         *)

\* the step is the callback of gameOverQueuedTimer, for a 'behind-camera'
\* request queued while the player had strayed off the patterns
BehindCameraFires ==
    /\ graceLeft = 0 /\ graceLeft' < 0
    /\ gameOverQueuedReason = "behind-camera"
    /\ strayed

----------------------------------------------------------------------------
(* The pit-fall check (main.ts 1557-1572)                                  *)

\* the three conditions, on the player as the frame leaves it
PitFallCond ==
    /\ isOverPit(worldX)
    /\ vy > PIT_VY_MIN
    /\ y + Py(playerRadius) > getGroundY(worldX) + Py(PIT_DEPTH_MIN)

\* the step is an animation frame
FrameStep == frames' = frames + 1

\* a step of restartGame: the click on 'Play Again', or startGame returning
RestartStep == session'.n # session.n \/ session'.loaded # session.loaded

\* the frame ended the run with reason 'fell-into-pit'
PitFallFired ==
    /\ gameOver' /\ ~gameOver
    /\ Len(ev'.calls) = 1 /\ ev'.calls[1].reason = "fell-into-pit"

\* the game-over check of the frame called doGameOver('fell-into-pit')
PitFallCalled ==
    \E i \in 1..Len(ev'.calls) : ev'.calls[i].reason = "fell-into-pit"

-----------------------------------------------------------------------------
\* C11  pickups are collected at most once

PickupSet(ps) == {ps[i] : i \in 1..Len(ps)}

\* the player as it stood when the pickup loop of the step ran
PassPlayer == [worldX |-> ev'.passX, y |-> ev'.passY]

\* the pickups that leave the active list in the step
Collected == PickupSet(pickups) \ PickupSet(pickups')

\* C11: the active pickup list never gets a pickup back; a frame removes
\* from it exactly the pickups whose box overlaps the player's box at the
\* pickup loop, and each of them adds exactly 1 to the score (the rest of the
\* frame's gain is the distance award); no other step collects a pickup or
\* changes the score.  (The steps of a restart, which clears the list and
\* lays out new pickups, are left out.)
C11_CollectedOnce ==
    [][RestartStep \/
       (/\ pickups' = SelectSeq(pickups, LAMBDA it : it \in PickupSet(pickups'))
        /\ FrameStep =>
             /\ Collected = {it \in PickupSet(pickups) : PickupHit(it, PassPlayer)}
             /\ ev'.picked = Cardinality(Collected)
             /\ score' - score = Cardinality(Collected)
                  + POINTS_PER_100PX * (lastDistanceThreshold' - lastDistanceThreshold)
        /\ ~FrameStep => pickups' = pickups /\ score' = score)]_vars

\* a frame has just collected the second of the three pickups of the group
C11_Witness ==
    /\ ev.op = "frame"
    /\ ev.picked = 1
    /\ Len(pickups) = 1
    /\ score >= 2

-----------------------------------------------------------------------------
\* C12  power-up tiering

\* the score passes a multiple of TIER_POINTS in the step
TierStep == TierCrossed(score, score')

\* the power-up runs out before the frame starts, or is not running
PowerOffAtFrame == ~playerInvincible

-----------------------------------------------------------------------------
\* C13  the score model

\* floor(scroll / 100)
ScrollHundreds(sc) == sc \div Px(100)

\* the pickups the session has collected so far: the layout places one
\* group, and a pickup leaves the list only by being collected (or, in a
\* restart, by being cleared before the new world is laid out)
PickupsCollected == IF session.loaded THEN Items1.count - Len(pickups) ELSE 0

\* score = pickups collected + 15 * lastDistanceThreshold, and the threshold
\* is never ahead of the scroll
ScoreModel ==
    /\ score = PickupsCollected + POINTS_PER_100PX * lastDistanceThreshold
    /\ lastDistanceThreshold <= ScrollHundreds(scroll)

\* neither the threshold nor the score ever decreases until restart
ScoreMonotone ==
    RestartStep \/ (lastDistanceThreshold' >= lastDistanceThreshold /\ score' >= score)

\* the thresholds the scroll is ahead of lastDistanceThreshold in the step
Owed == ScrollHundreds(scroll') - lastDistanceThreshold

\* a tick that finds the scroll k thresholds ahead awards 15 * k
AwardsOwed ==
    (FrameStep /\ Owed > 0) =>
        /\ lastDistanceThreshold' = lastDistanceThreshold + Owed
        /\ score' - score = Cardinality(Collected) + POINTS_PER_100PX * Owed

CutShort == ev'.returned

-----------------------------------------------------------------------------
\* C14  scenario A: running on a pattern's ground collider

\* where the tick's advance takes the player: speed * 1.015 * dt further,
\* with the speed of the tick and dt = 2 ticks
AdvancedX == worldX + (speed' * 2 * PLAYER_SPEED_PCT * XPerSpeedTick) \div 1000

\* the case of scenario A: a frame of a living player that stands on a
\* ground collider and has nothing but that ground where the advance takes it
RunsOnGround == FrameStep /\ StandingRun(AdvancedX)

\* C14: a frame of a living player standing on a pattern's ground collider,
\* with no jump input and nothing but that ground where it is going, ends
\* with onGround true, y unchanged (collider top minus radius) and worldX
\* advanced by speed * PLAYER_SPEED_FACTOR * dt.
C14_ScenarioA ==
    [][RunsOnGround => onGround' /\ y' = y /\ vy' = 0 /\ worldX' = AdvancedX]_vars

\* a frame has taken the player further along the ground collider it stood
\* on: Player.update had let it sink below the collider top, the collider
\* loop put it back
C14_Witness ==
    /\ ev.op = "frame"
    /\ ev.ran
    /\ ev.passY > y
    /\ onGround
    /\ \E i \in 1..Len(obstacles) : StandsOn(obstacles[i])

-----------------------------------------------------------------------------
\* C15  gravity while supported

\* a Player.update step
UpdateStep == calls' = calls + 1 /\ plast'.op = "update"

\* the player rests on the surface getGroundY reports under it
RestsOnSurface ==
    /\ onGround
    /\ vy = 0
    /\ y = getGroundY(worldX) - Py(playerRadius)

\* C15: Player.update on a player that is onGround and rests exactly on the
\* queried surface (y = surfaceY - radius, vy = 0), no jump issued, leaves y
\* unchanged and onGround true.
C15_RestingStays ==
    [][(UpdateStep /\ RestsOnSurface) => (y' = y /\ onGround')]_vars

-----------------------------------------------------------------------------
\* C16  scenario B: a jump from the ground of a pattern

\* a keydown that starts a jump from the ground of a pattern
JumpStart ==
    /\ ~spaceHeld /\ spaceHeld'
    /\ controlsEnabled /\ onGround /\ isOnPattern(worldX)

\* frames a jump may last: 2 * jumpSpeed / gravity, and the hold budget on
\* top of it
FlightFrames == (2 * jumpSpeed * Hz) \div (gravity * 2) + maxJumpHoldTime \div 2 + 1

C16_ReturnsInTime ==
    [][/\ JumpStart => ~onGround' /\ flight'.st = "air"
       /\ flight'.st = "air" => ~onGround' /\ flight'.n < FlightFrames
       /\ flight'.st = "landed" => onGround' /\ flight'.n <= FlightFrames]_vars

-----------------------------------------------------------------------------
\* C17  reset()

JustReset == last.op = "reset"

\* C17: right after reset() nothing is registered any more: isOnPattern and
\* isOverPit are false at every probe (the ends and the middle of every span
\* ever placed), getObstacles() is empty, scroll is 0 and speed is the
\* configured initial speed.
C17_ResetClearsAll ==
    JustReset =>
        /\ \A x \in ProbeXs : ~isOnPattern(x) /\ ~isOverPit(x)
        /\ getObstacles = <<>>
        /\ scroll = 0
        /\ speed = baseInitialSpeed * SU

\* the parts of C17 about pits, colliders, scroll and speed
C17_ResetClearsRest ==
    JustReset =>
        /\ \A x \in ProbeXs : ~isOverPit(x)
        /\ getObstacles = <<>>
        /\ scroll = 0
        /\ speed = baseInitialSpeed * SU

-----------------------------------------------------------------------------
\* C18  update(dt, speedAccel)

\* a MapHandler.update step
UpdateCall == calls' = calls + 1 /\ last'.op = "update"

ResetCall == calls' = calls + 1 /\ last'.op = "reset"

\* C18: an update of dt ticks raises speed by speedAccel * dt and then scroll
\* by the new speed times dt, returns exactly the new {scroll, speed} and
\* leaves the world offset at -scroll; no step other than reset lowers
\* scroll or speed.
C18_UpdateAdvances ==
    [][/\ UpdateCall =>
            /\ speed' = speed + (speedAccel * last'.dt * SU) \div Hz
            /\ scroll' = scroll + speed' * last'.dt * XPerSpeedTick
            /\ last'.out = <<[scroll |-> scroll', speed |-> speed'], 0 - scroll'>>
       /\ ~ResetCall => scroll' >= scroll /\ speed' >= speed]_vars

\* an update of two seconds on a manager that had already advanced
C18_Witness ==
    /\ last.op = "update"
    /\ last.dt = 100
    /\ scroll > Px(1000)
    /\ speed > baseInitialSpeed * SU + speedAccel * SU * 5
    /\ last.out[2] = 0 - scroll

-----------------------------------------------------------------------------
\* C36  what update touches

\* t is what is left of s after entries were taken off its head
IsSuffix(t, s) ==
    Len(t) <= Len(s) /\ t = SubSeq(s, Len(s) - Len(t) + 1, Len(s))

\* C36: a call of update changes only scroll, speed, the camera offset and,
\* by garbage collection, the collider list: with allowRandomObstacles false
\* it adds no collider, and it never adds, removes or changes a registered
\* pit or a pattern span.
C36_UpdateFootprint ==
    [][UpdateCall =>
         /\ pits' = pits
         /\ patterns' = patterns
         /\ ~allowRandomObstacles => IsSuffix(obstacles', obstacles)]_vars

\* the part of C36 that does not concern the pit list, and for the pit list
\* that the entries present before the call are kept as they were
C36_AllButNewPits ==
    [][UpdateCall =>
         /\ patterns' = patterns
         /\ ~allowRandomObstacles => IsSuffix(obstacles', obstacles)
         /\ Len(pits') \in {Len(pits), Len(pits) + 1}
         /\ SubSeq(pits', 1, Len(pits)) = pits
         /\ UNCHANGED <<allowRandomObstacles, planes, cursor>>]_vars

-----------------------------------------------------------------------------
\* C19  collider garbage collection

RightEdge(o) == o.x + o.width

\* the line behind which update collects, after the step
CollectLine == scroll' - Px(GC_MARGIN)

\* update keeps every collider whose right edge is at or beyond the line
KeepsLive ==
    \A i \in 1..Len(obstacles) :
        RightEdge(obstacles[i]) >= CollectLine
          => \E j \in 1..Len(obstacles') : obstacles'[j] = obstacles[i]

\* C19: after every update call getObstacles() holds no collider whose right
\* edge is less than scroll - 200, whatever the order of insertion, and the
\* call has removed no collider whose right edge is at or beyond scroll - 200.
C19_CompleteCollection ==
    [][UpdateCall =>
         /\ \A j \in 1..Len(obstacles') : RightEdge(obstacles'[j]) >= CollectLine
         /\ KeepsLive]_vars

\* the second half of C19 alone
C19_NeverRemovesLive == [][UpdateCall => KeepsLive]_vars

-----------------------------------------------------------------------------
\* C20  getSurfaceYAt(x)

\* the placed patterns, in the order of placement, whose span holds x
Holding(x) ==
    {i \in 1..Len(patterns) :
        x >= patterns[i].start /\ x <= patterns[i].start + patterns[i].length}

\* the top of the ground collider addPattern creates for a pattern
ColliderTop == groundY + Py(patternYOffset) - Py(groundThickness)

\* C20: at every probe, getSurfaceYAt(x) is the collider top plus the
\* playerYOffset of the earliest-placed pattern whose span holds x, and it is
\* the fallback groundY exactly when isOnPattern(x) is false.
C20_SurfaceOfEarliest ==
    \A x \in ProbeXs :
        /\ isOnPattern(x) <=> Holding(x) # {}
        /\ (getSurfaceYAt(x) = groundY) <=> ~isOnPattern(x)
        /\ \A i \in Holding(x) :
             (\A j \in Holding(x) : i <= j)
               => getSurfaceYAt(x) = ColliderTop + patterns[i].playerYOffset

\* two placed patterns hold the same position with different surfaces, and
\* getSurfaceYAt answers with the one placed first
C20_Witness ==
    \E x \in ProbeXs :
        /\ \E i, j \in Holding(x) :
             /\ i < j
             /\ \A k \in Holding(x) : i <= k
             /\ patterns[i].playerYOffset # patterns[j].playerYOffset
             /\ getSurfaceYAt(x) = ColliderTop + patterns[i].playerYOffset
        /\ \E z \in ProbeXs : ~isOnPattern(z) /\ getSurfaceYAt(z) = groundY

-----------------------------------------------------------------------------
\* C21  dead is terminal for movement

\* C21: once playerDead is set no step of the session (a restart ends it)
\* clears it, and no step
\* taken while it is set (a tick, a key event, a timer callback) increases
\* player.worldX.
C21_DeadIsTerminal ==
    [][(playerDead /\ ~RestartStep) => (playerDead' /\ worldX' <= worldX)]_vars

\* frames have run on a dead player: the camera has gone on and left the
\* player, which still stands where it died, behind its place on the screen
C21_Witness ==
    /\ ev.op = "frame"
    /\ playerDead
    /\ gameOver
    /\ overFrames >= 1
    /\ worldX - scroll < Px(PLAYER_X)

-----------------------------------------------------------------------------
\* C22  no jump input while dead

\* a jump-start event: the keydown of a key that was up (the pointerdown
\* handler is the same code on its own flag)
JumpInput == ~spaceHeld /\ spaceHeld'

\* the event leaves the jump state of the player alone
JumpIgnored == vy' = vy /\ onGround' = onGround /\ jumpsLeft' = jumpsLeft

\* C22: a jump-start event that arrives while playerDead is set changes
\* neither velocityY nor onGround nor jumpsRemaining.
C22_NoJumpWhileDead == [][(JumpInput /\ playerDead) => JumpIgnored]_vars

\* the part of C22 the handlers do keep: an event that arrives while the
\* controls are disabled is ignored
C22_NoJumpWhileDisabled == [][(JumpInput /\ ~controlsEnabled) => JumpIgnored]_vars

-----------------------------------------------------------------------------
\* C23  velocityY is frozen while dead

\* C23: every tick that ends with playerDead set, the tick of the death
\* transition and every later one, ends with velocityY = 0.
C23_FrozenWhileDead == [][(FrameStep /\ playerDead') => vy' = 0]_vars

-----------------------------------------------------------------------------
\* C24  invincibility

\* the colliders that are not ground, after the step
HazardsAfter == {obstacles'[i] : i \in {j \in 1..Len(obstacles') : ~obstacles'[j].isGround}}

PlayerAfter == [ThePlayer EXCEPT !.worldX = worldX', !.y = y']

\* the step left the player standing on top of o
SnappedOn(o) ==
    /\ Overlaps(o, PlayerAfter)
    /\ y' = o.top - Py(playerRadius)
    /\ vy' = 0 /\ onGround' /\ jumpsLeft' = maxJumps

\* the step held the player back at the left side of o
ClampedAt(o) == worldX' = o.x - Px(playerRadius) - Px(2)

\* the player box reaches into o from below its top
Inside(o, pl) == Overlaps(o, pl) /\ pl.y + Py(playerRadius) > o.top

----------------------------------------------------------------------------
(* C25                                                                     *)

\* C25: landing on an obstacle.  A frame in which the obstacle loop resolved
\* a landing -- on a collider the player overlaps horizontally, its bottom
\* at or above the collider top before the physics step (the bottom it had
\* when the frame began: the advance does not move it vertically), at or
\* below the top after the step, its velocity then not upward -- ends with
\* the player snapped onto that top: y = obstacleTop - radius, vy = 0,
\* onGround = true, jumpsLeft = maxJumps
C25_LandingSnap ==
    [][(FrameStep /\ ev'.landed) =>
         /\ ev'.landPrev = y + Py(playerRadius)
         /\ ev'.landPrev <= ev'.landTop /\ ev'.landCurr >= ev'.landTop
         /\ ev'.landVy >= 0
         /\ \E i \in 1..Len(obstacles') :
              Overlaps(obstacles'[i], PlayerAfter) /\ obstacles'[i].top = ev'.landTop
         /\ y' = ev'.landTop - Py(playerRadius)
         /\ vy' = 0 /\ onGround' /\ jumpsLeft' = maxJumps]_vars

\* a falling player has come down through the top of a hazard box within
\* one frame and is on it
C25_Witness ==
    /\ ev.op = "frame" /\ ev.landed
    /\ ev.landPrev < ev.landTop /\ ev.landCurr > ev.landTop /\ ev.landVy > 0
    /\ \E i \in 1..Len(obstacles) :
         /\ ~obstacles[i].isGround /\ obstacles[i].top = ev.landTop
         /\ Overlaps(obstacles[i], ThePlayer)
    /\ y = ev.landTop - Py(playerRadius) /\ vy = 0 /\ onGround
    /\ jumpsLeft = maxJumps

----------------------------------------------------------------------------
(* C26                                                                     *)

\* C26: side-blocking prevents clipping.  A frame in which the obstacle loop
\* took the side branch ends with the player at or left of
\* obstacleLeft - radius of a collider, and every frame ends with the player
\* overlapping horizontally no collider whose top is above its bottom
C26_NoClipping ==
    [][FrameStep =>
         /\ ev'.clamped =>
               \E i \in 1..Len(obstacles') :
                  worldX' <= obstacles'[i].x - Px(playerRadius)
         /\ \A i \in 1..Len(obstacles') : ~Inside(obstacles'[i], PlayerAfter)]_vars

\* a player that has dropped below the ground line next to a ground
\* collider is held at its left side
C26_Witness ==
    /\ ev.op = "frame" /\ ev.clamped /\ ~ev.contact /\ ~ev.contactInvincible
    /\ \E i \in 1..Len(obstacles) :
         /\ obstacles[i].isGround
         /\ worldX = obstacles[i].x - Px(playerRadius) - Px(2)
         /\ y + Py(playerRadius) > obstacles[i].top

----------------------------------------------------------------------------
(* C27                                                                     *)

\* the place of a step in the order (a) advance, (b) physics, (c) collision
\* and outcome resolution, (d) score bookkeeping and game-over decision
StepRank(s) ==
    CASE s = "advance" -> 1
      [] s = "physics" -> 2
      [] s \in {"pickups", "landing", "blocking", "pitfall", "offcamera"} -> 3
      [] OTHER -> 4

InOrder(log) ==
    \A i, j \in 1..Len(log) : i < j => StepRank(log[i]) <= StepRank(log[j])

\* C27: within every tick the steps run in the order (a) world/camera
\* advance, (b) player physics, (c) all collision and outcome resolution
\* (pickup, landing, blocking, pit-fall, off-camera), (d) score bookkeeping:
\* no score change and no game-over decision of a tick comes before a
\* collision resolution of that tick
C27_StrictOrder == [][FrameStep => InOrder(ev'.log)]_vars

\* what does hold of every tick: it begins with the advance, the physics
\* step and the pickup loop, in that order, and once the pit-fall test of
\* the second ticker callback has run nothing but the off-camera test and
\* the game-over decision follows
C27_ObservedOrder ==
    [][FrameStep =>
         LET log == ev'.log IN
         /\ Len(log) >= 3
         /\ SubSeq(log, 1, 3) = <<"advance", "physics", "pickups">>
         /\ \A i, j \in 1..Len(log) :
              (i < j /\ log[i] = "pitfall") => log[j] \in {"offcamera", "gameover"}
         /\ \A i, j \in 1..Len(log) :
              (i < j /\ log[i] = "gameover") => FALSE]_vars

----------------------------------------------------------------------------
(* C28                                                                     *)

HasCollider(ps) ==
    \E j \in 1..Len(obstacles) :
       obstacles[j].x = PlaneLeft(ps) /\ obstacles[j].top = PlaneTop(ps)

OwnColliders == {j \in 1..Len(obstacles) : obstacles[j].width = Px(120)}

\* what does hold: the wide platform, whose width no other collider comes
\* near, is followed by its collider tick by tick until the cleanup behind
\* the camera has removed the collider
C28_SyncedUntilCleanup ==
    (frames >= 1 /\ planes[1].gw = Px(120) /\ OwnColliders # {}) =>
       \A j \in OwnColliders :
          obstacles[j].x = PlaneLeft(planes[1]) /\ obstacles[j].top = PlaneTop(planes[1])

----------------------------------------------------------------------------
(* C29                                                                     *)

JustLaid == last.op = "layout"
Early == last.startX < Px(DISTANCE_NORMAL_START)

\* C29: early-game difficulty ramp.  Every pattern placed at a start
\* position below DISTANCE_NORMAL_START has a difficulty other than MEDIUM,
\* a MEDIUM result there being replaced by a plain-ground pattern; the
\* moving-plane variant is never selected below the threshold; and a factory
\* that throws is replaced by a plain-ground pattern, so that every
\* iteration places a pattern at its cursorX (its span starting where its
\* rendered bounds start)
C29_EarlyRamp ==
    JustLaid =>
      /\ Early => last.difficulty # "MEDIUM"
      /\ (Early /\ last.call = "MEDIUM") => last.ground
      /\ Early => (last.variant # "d5" /\ ~last.plane)
      /\ last.threw => last.ground
      /\ Len(patterns) = calls
      /\ patterns[Len(patterns)].start = last.startX + last.left
      /\ last.ground =>
            /\ patterns[Len(patterns)].length = Px(PATTERN_LENGTH)
            /\ obstacles[Len(obstacles)].isGround

\* below the threshold a Danger factory was drawn whose pattern is tagged
\* MEDIUM, and plain ground has been placed in its stead
C29_Witness ==
    /\ JustLaid /\ Early /\ last.startX > 0
    /\ last.variant \in {"d1", "d3", "d4"} /\ last.call = "MEDIUM"
    /\ last.ground /\ last.difficulty = "EASY"
    /\ obstacles[Len(obstacles)].isGround

----------------------------------------------------------------------------
(* C37: layout consistency in startGame.  For every pair of consecutive    *)
(* placed patterns the pit the host registers between them covers exactly  *)
(* the gap between the end of the registered span of the first and the     *)
(* start of the registered span of the next, whatever the rendered bounds  *)
(* of the patterns, a non-zero left offset included.  The patterns of the  *)
(* layout declare no pits, so the pit after the i-th span is pits[i].      *)

SpanEnd(i) == patterns[i].start + patterns[i].length

C37_PitCoversGap ==
    \A i \in 1..(Len(patterns) - 1) :
        /\ pits[i].x = SpanEnd(i)
        /\ pits[i].x + pits[i].width = patterns[i + 1].start

\* where the host does put the pit: at cursorX + visualLength, that is past
\* the end of the registered span by the left offset of the rendered bounds,
\* and the next pattern is handed the cursor at the end of the pit
C37_PitFromCursor ==
    JustLaid =>
      LET n == Len(patterns) IN
        /\ Len(pits) = n
        /\ pits[n].x = SpanEnd(n) - last.left
        /\ pits[n].width = Px(HOST_PIT_WIDTH)
        /\ pits[n].x + pits[n].width = cursor
        /\ patterns[n].start = last.startX + last.left
        /\ n > 1 => last.startX = pits[n - 1].x + pits[n - 1].width

----------------------------------------------------------------------------
(* C30                                                                     *)

\* C30: the behind-camera game-over is live, in the form a finite run can
\* refute.  Once the player has been behind the left edge of the camera and
\* not grounded on a pattern at the end of every tick for longer than the
\* grace delay (six frames of 100 ms in a row), the game-over has fired
C30_BehindCameraFires == behindFrames >= GraceFrames => gameOver

\* why it does not: a tick that ends with the player behind the camera and
\* the game not over leaves the whole grace delay pending, whatever was
\* pending before
C30_TimerRearmed ==
    [][(FrameStep /\ ~gameOver' /\ behindFrames' > 0) =>
         (graceLeft' = GAME_OVER_GRACE
          /\ gameOverQueuedReason' = "behind-camera")]_vars

----------------------------------------------------------------------------
(* C31: the hold extension is bounded per jump.  Reduced gravity is        *)
(* applied only while the jump is held, the elapsed hold is below          *)
(* maxJumpHoldTime and velocityY < 0, and for each successful jump the     *)
(* total time spent under reduced gravity never exceeds maxJumpHoldTime    *)
(* plus the time of one update; a jump-start input that fails does not     *)
(* restart the budget.  Stated on every update: plast.held is the time     *)
(* under reduced gravity since the last successful jump, and before an     *)
(* update that applied reduced gravity it was below maxJumpHoldTime.       *)

C31_HoldBounded ==
    (JustUpdated /\ plast.reduced) => plast.held - plast.dt < maxJumpHoldTime

\* what the code does bound: the time under reduced gravity since the last
\* startJumpHold or endJumpHold call, whether or not that call jumped
C31_BoundedPerHold ==
    /\ jumpHoldTime >= 0
    /\ (JustUpdated /\ plast.reduced) =>
          (holdingJump /\ jumpHoldTime - plast.dt < maxJumpHoldTime
           /\ plast.newVy - (gravity * holdGravityPct * plast.dt) \div (100 * Hz) < 0)

----------------------------------------------------------------------------
(* C32: game-over freezes the run.  Once gameOver is true, score,          *)
(* lastDistanceThreshold, scroll and the player's position do not change   *)
(* on any later tick, and no pickup is collected, until restart.  Stated   *)
(* on every step that starts and ends with gameOver set.                   *)

C32_FrozenAfterGameOver ==
    [][(gameOver /\ gameOver') =>
         UNCHANGED <<score, lastDistanceThreshold, scroll, worldX, y, pickups>>]_vars

\* what stops at game-over: the second ticker callback returns at once, so
\* a frame that starts with gameOver set tests no pit and queues nothing
C32_NoChecksAfterGameOver ==
    [][(FrameStep /\ gameOver) =>
         (~ev'.pitTested /\ ev'.queued = "null" /\ ~ev'.cancelled
          /\ graceLeft' = Elapse(graceLeft, 2))]_vars

----------------------------------------------------------------------------
(* C33: no stale callback crosses a restart.  After restartGame has reset  *)
(* gameOver to false, no grace-timer callback and no collision-effect      *)
(* completion callback scheduled during the previous session sets          *)
(* gameOver or shows the game-over screen in the new session.              *)

StaleCallback == ev.op \in {"grace", "effect"} /\ ev.stale

C33_NoStaleCallback == StaleCallback => Overs(ev) = 0

\* the only thing that holds such a callback back: a grace-timer callback
\* that finds the player grounded on a pattern of the new world
C33_StaleGraceSuppressed ==
    (StaleCallback /\ ev.op = "grace" /\ isOnPattern(worldX) /\ onGround
       /\ ~rewardActive /\ ~rewardPermanentStop)
      => (Overs(ev) = 0 /\ (gameOver => session.shown = 1 /\ ev.calls[1].outcome = "already"))

----------------------------------------------------------------------------
(* C34: restart fully resets the session.  When restartGame completes,     *)
(* score = 0, lastDistanceThreshold = 0, gameOver = false, playerDead =    *)
(* false, controlsEnabled = true, playerInvincible = false, the player is  *)
(* grounded on the first pattern with jumpsRemaining = maxJumps, and the   *)
(* new world's scroll is 0.                                                *)

\* the step in which restartGame completes
RestartCompletes == ~session.loaded /\ session'.loaded

OnFirstPattern ==
    /\ Len(patterns) > 0
    /\ InSpan(worldX, patterns[1].start, patterns[1].length)
    /\ onGround

C34_FullReset ==
    [][RestartCompletes =>
         (/\ score = 0 /\ lastDistanceThreshold = 0
          /\ ~gameOver /\ ~playerDead /\ controlsEnabled /\ ~playerInvincible
          /\ OnFirstPattern /\ jumpsLeft = maxJumps
          /\ scroll = 0)']_vars

\* what restartGame and startGame do reset
C34_ResetRest ==
    [][RestartCompletes =>
         (/\ score = 0 /\ prevScore = 0 /\ lastDistanceThreshold = 0
          /\ ~playerDead /\ controlsEnabled
          /\ OnFirstPattern /\ jumpsLeft = maxJumps /\ vy = 0
          /\ scroll = 0 /\ speed = baseInitialSpeed * SU)']_vars

----------------------------------------------------------------------------
(* C38: grounded means at rest.  At the end of every tick and after every  *)
(* input event, onGround implies velocityY = 0 and                         *)
(* 0 <= jumpsRemaining <= maxJumps; so a player whose velocityY is above    *)
(* the pit-fall threshold of 60 is never grounded.                         *)

C38_GroundedAtRest ==
    /\ onGround => (vy = 0 /\ 0 <= jumpsLeft /\ jumpsLeft <= maxJumps)
    /\ vy > PIT_VY_MIN => ~onGround

\* a tick has landed a player that came down faster than the pit-fall
\* threshold with the jump key still held, and has given it its jumps back
C38_Witness ==
    /\ ev.op = "frame" /\ ev.landed /\ ev.landVy > PIT_VY_MIN
    /\ spaceHeld /\ holdingJump
    /\ onGround /\ vy = 0 /\ jumpsLeft = maxJumps

----------------------------------------------------------------------------
(* C40: pause/resume round trip of SpinePlayer.  For a track with an       *)
(* active entry, one or more pauseTrack(t) calls followed by one           *)
(* resumeTrack(t) restore the timeScale the entry had before the first     *)
(* pause, never leaving it at 0; resumeTrack without a prior pause sets it *)
(* to the desired time scale.                                              *)

JustResumed == spinePlayerInstance.op = "resumeTrack" /\ spinePlayerInstance.hadEntry
ResumedScale == spinePlayerInstance.tracks[spinePlayerInstance.track]

C40_PauseResumeRoundTrip ==
    JustResumed =>
      /\ spinePlayerInstance.wasPaused \in {"one", "many"} =>
            (ResumedScale = spinePlayerInstance.wasBefore /\ ResumedScale # 0)
      /\ spinePlayerInstance.wasPaused = "none" =>
            ResumedScale = spinePlayerInstance.desiredTimeScale

\* what holds: a single pauseTrack followed by resumeTrack restores the
\* timeScale the entry had, and resumeTrack without a pause sets the desired
\* time scale
C40_SinglePauseRoundTrip ==
    JustResumed =>
      /\ spinePlayerInstance.wasPaused = "one" =>
            ResumedScale = spinePlayerInstance.wasBefore
      /\ spinePlayerInstance.wasPaused = "none" =>
            ResumedScale = spinePlayerInstance.desiredTimeScale

----------------------------------------------------------------------------
(* C39: game-over is idempotent within a session.  Between two restarts    *)
(* gameOver changes from false to true at most once and the game-over      *)
(* screen is shown at most once, however many soft, forced or queued       *)
(* game-over requests arrive.  session.shown counts the doGameOver calls   *)
(* that went through since the last restart.                               *)

C39_GameOverOnce ==
    [][/\ session'.shown <= 1
       /\ (~gameOver /\ gameOver') => (session.shown = 0 /\ session'.shown = 1)
       /\ (gameOver /\ ~gameOver') => session'.n = session.n + 1]_vars

\* a game-over request has just arrived in a session that was over already,
\* and was turned down
C39_Witness ==
    /\ gameOver /\ session.shown = 1
    /\ \E i \in 1..Len(ev.calls) : ev.calls[i].outcome = "already"

====
